---------------------------- MODULE Spec2Model ----------------------------
(***************************************************************************)
(* A state-machine model of the application bootstrap of zed / zedxa       *)
(* (crates/zed/src/main.rs, crates/zedxa/src/main.rs, crates/zedxa/src/    *)
(* zed.rs) and of the gpui example programs (crates/gpui/examples).        *)
(*                                                                         *)
(* The module holds several specifications over one set of variables, one  *)
(* per part of the program; each pins the variables of the other parts:    *)
(*   SpecLogger   init_logger and the log files                            *)
(***************************************************************************)
EXTENDS Integers, Sequences, FiniteSets, TLC

VARIABLES
    \* ---- init_logger (main.rs) -------------------------------------------
    logFile,        \* the file at paths::log_file()
    oldLogFile,     \* the file at paths::old_log_file()
    logger,         \* "none" | "stdout" | "file": the logger installed by this process
    lastInit,       \* what the last init_logger call saw and did (history)
    nextFileId,     \* identity given to the next file created
    runs,           \* number of processes started so far
    \* ---- installation_id (main.rs) and KEY_VALUE_STORE ---------------------
    kv,             \* the key-value store: the value under each of the two keys
    iidPc,          \* where the running installation_id call stands ("idle": none runs)
    iidLocal,       \* the call's local `installation_id`
    iidPre,         \* the store as it was when the running call began (history)
    iidResults,     \* what the finished calls returned, oldest first (history)
    nextUuid,       \* the next value Uuid::new_v4() gives
    \* ---- main, init_ui, fail_to_launch (main.rs) ---------------------------
    variant,        \* "zed" | "zedxa": which crate's main is built
    platform,       \* "linux" | "macos" | "windows": target_os of the build
    isPty,          \* the value stdout_is_a_pty() has in this process
    pc,             \* where the process stands: "main", "fail_to_launch", "fl_loop",
                    \*   "launching", "run", "event_loop", "exited", "panicked"
    ip,             \* index of the next call of the list being executed
    trace,          \* the calls made so far, in order (history)
    globals,        \* the gpui globals that are set
    earlyReads,     \* <<call, global>>: a call read a global that was not set (history)
    spawned,        \* tasks spawned and not yet run
    ran,            \* the tasks that ran, with their outcome, in order (history)
    failures,       \* failures of child subsystems that occurred (history)
    logged,         \* failures that were caught and logged
    exitCode,       \* the status the process exited with (-1: it has not)
    prompt,         \* fail_to_launch's prompt: "none", "pending", "answered", "dismissed"
    promptButtons,  \* the buttons of that prompt
    windowOpened,   \* fail_to_launch: "untried", "yes", "no"
    appStateStrong, \* an Arc<AppState> is still held somewhere
    initUiRuns,     \* per init_ui call, the calls it made (history)
    reopens         \* per on_reopen callback, what it found and did (history)

\* handle_keymap_file_changes (crates/zedxa/src/zed.rs 578-650)
VARIABLES
    baseKeymap,         \* the BaseKeymap setting in the SettingsStore
    vimMode,            \* the VimModeSetting in the SettingsStore
    oldBaseKeymap,      \* old_base_keymap, captured by the settings observer
    oldVimEnabled,      \* old_vim_enabled, captured by the settings observer
    baseKeymapRx,       \* base_keymap_rx: the number of () signals waiting
    userKeymapFileRx,   \* user_keymap_file_rx: the file contents waiting, oldest first
    userKeymap,         \* user_keymap, the loop's local
    bindings,           \* the key bindings registered in the AppContext, in order
    reloads,            \* calls of reload_keymaps made by the loop (history)
    signalsSent,        \* signals sent on base_keymap_tx (history)
    contentsSent,       \* contents sent on the user keymap channel (history)
    keymapNotices,      \* the arguments keymap_changed was called with (history)
    settingsSeen        \* the settings at registration and at each notification (history)

\* the example programs (crates/gpui/examples)
VARIABLES
    example,        \* which example program runs
    focus,          \* the element whose focus handle has the focus, or NoFocus
    presses,        \* per key press: the key, the focus, the handlers invoked (history)
    quit            \* cx.quit() was called

\* the Quit action (crates/zedxa/src/zed.rs 435-489)
VARIABLES
    windows,        \* cx.windows(): per workspace window, what is_active gives
    openWindows,    \* the windows that are still open
    shouldConfirm,  \* WorkspaceSettings::confirm_quit when the action ran
    quitPc,         \* "idle", "confirm", "loop", "closing", "returned"
    quitOrder,      \* workspace_windows after the sort
    quitNext,       \* index in quitOrder of the next window of the for loop
    quitPrompt,     \* the window the confirmation is shown in and its buttons, or <<>>
    quitAnswer,     \* what the confirmation resolved to ("none" while it has not)
    quitAsked,      \* per prepare_to_close call, the window and its result (history)
    quitPending,    \* prepare_to_close futures not yet resolved
    quitCalled      \* the task called cx.quit()

loggerVars == <<logFile, oldLogFile, logger, lastInit, nextFileId, runs>>
kvVars == <<kv, iidPc, iidLocal, iidPre, iidResults, nextUuid>>

mainVars == <<variant, platform, isPty, pc, ip, trace, globals, earlyReads, spawned, ran,
              failures, logged, exitCode, prompt, promptButtons, windowOpened,
              appStateStrong, initUiRuns, reopens>>

keymapVars == <<baseKeymap, vimMode, oldBaseKeymap, oldVimEnabled, baseKeymapRx,
                userKeymapFileRx, userKeymap, bindings, reloads, signalsSent, contentsSent,
                keymapNotices, settingsSeen>>

keyVars == <<example, focus, presses, quit>>

quitVars == <<windows, openWindows, shouldConfirm, quitPc, quitOrder, quitNext, quitPrompt,
              quitAnswer, quitAsked, quitPending, quitCalled>>

\* build_window_options (zedxa/src/zed.rs 77-110)
VARIABLES
    decorationsEnv,     \* what std::env::var("ZED_WINDOW_DECORATIONS") returns
    displayUuid,        \* the display_uuid argument
    displays,           \* cx.displays(): what uuid() returns for each, in order
    windowOptions       \* the WindowOptions returned, <<>> before the call

windowVars == <<decorationsEnv, displayUuid, displays, windowOptions>>

\* initialize_workspace (zedxa/src/zed.rs 112-184): one new workspace
VARIABLES
    gpuSpecs,           \* cx.gpu_specs(): "None", or Some with is_software_emulated or not
    allowEmulatedEnv,   \* what std::env::var("ZED_ALLOW_EMULATED_GPU") returns
    wsPc,               \* "new" until the observe_new_views callback ran, then "ready"
    wsAlive,            \* the workspace view has not been released
    statusBarItems,     \* the status bar items were added
    gpuPrompt,          \* "none", "shown" or "resolved"
    gpuAnswer,          \* what the prompt resolved to
    urlOpened,          \* cx.open_url was called
    wsQuit,             \* cx.quit was called
    closeRequests,      \* the calls of the on_window_should_close callback (history)
    panelLoads,         \* the three panel loads of the task of zed.rs 207-228
    panelsPc,           \* that task: "none", "try_join", "joined" or "returned"
    wsPanels,           \* the panels added to the workspace, in order
    wsFocused,          \* cx.focus_self() was called
    panelsResult        \* what the task returned

wsVars == <<gpuSpecs, allowEmulatedEnv, wsPc, wsAlive, statusBarItems, gpuPrompt, gpuAnswer,
            urlOpened, wsQuit, closeRequests, panelLoads, panelsPc, wsPanels, wsFocused,
            panelsResult>>

\* stdout_is_a_pty and its callers (zed/src/main.rs 208, 265-271, 413-424, 689-691)
VARIABLES
    forceCliEnv,        \* what std::env::var(FORCE_CLI_MODE_ENV_VAR_NAME) returns
    isTerminal,         \* std::io::stdout().is_terminal()
    developmentAuth,    \* *client::ZED_DEVELOPMENT_AUTH
    impersonateLogin,   \* client::IMPERSONATE_LOGIN.is_some()
    hasCredentials,     \* client.has_credentials(cx)
    cliPc,              \* the caller of stdout_is_a_pty that comes next
    shellTask,          \* login_shell_env_loaded: "none", "Task::ready" or "spawned"
    authCalls           \* the calls of authenticate_and_connect (their try_provider argument)

cliVars == <<forceCliEnv, isTerminal, developmentAuth, impersonateLogin, hasCredentials,
             cliPc, shellTask, authCalls>>

\* load_login_shell_environment (zed/src/main.rs 637-687)
VARIABLES
    shellEnv,           \* what env::var("SHELL") returns
    homeEnv,            \* env::var_os("HOME"): "NotPresent", "NotUnicode" or a path
    shellRun,           \* what running the shell gives: spawn error or exit status
    shellStdout,        \* the output of the shell, as its pieces in order
    shellPc,            \* "start", "running" or "returned"
    shellSpawned,       \* the commands spawned: the shell and the prefix of its command
    envSet,             \* the variables env::set_var was called for
    shellResult         \* what the function returned

shellVars == <<shellEnv, homeEnv, shellRun, shellStdout, shellPc, shellSpawned, envSet,
               shellResult>>

\* restorable_workspace_locations (zed/src/main.rs 482-542); an Option is a
\* sequence of at most one element
VARIABLES
    restoreOnStartup,   \* WorkspaceSettings::restore_on_startup
    lastSessionId,      \* session.last_session_id()
    windowStack,        \* session.last_session_window_stack().is_some()
    storedLocations,    \* what last_session_workspace_locations returns
    lastOpened,         \* what last_opened_workspace_paths returns
    appAlive,           \* cx.update succeeds
    restorable          \* the calls made and what they returned (history)

restoreVars == <<restoreOnStartup, lastSessionId, windowStack, storedLocations, lastOpened,
                 appAlive, restorable>>

\* restore_or_create_workspace and the task of main that runs it
\* (zed/src/main.rs 351-359, 452-480)
VARIABLES
    firstOpenRead,      \* what KEY_VALUE_STORE.read_kvp(FIRST_OPEN) returns
    rcPlatform,         \* the target_os of the build
    rcPc,               \* where the task is
    rcLocations,        \* what restorable_workspace_locations returned
    rcIndex,            \* the place in the list of the location being opened
    rcLog,              \* open_paths calls started and resolved (history)
    rcWelcome,          \* show_welcome_view was called
    rcNewFile,          \* workspace::open_new was called
    rcResult,           \* what restore_or_create_workspace returned
    rcPrinted,          \* fail_to_open_window printed the error
    rcExit              \* the status the process exited with, "none" while it runs

rcVars == <<firstOpenRead, rcPlatform, rcPc, rcLocations, rcIndex, rcLog, rcWelcome,
            rcNewFile, rcResult, rcPrinted, rcExit>>

\* open_log_file (zedxa/src/zed.rs 491-576)
VARIABLES
    oldLog,             \* fs.load(old_log_file()): <<>> for Err, else <<number of lines>>
    newLog,             \* fs.load(log_file()), the same way
    olPc,               \* where the task is
    olNext,             \* the place in the chained lines of the line pushed next
    olLines,            \* the VecDeque lines
    olWorkspaceAlive,   \* the weak workspace handle can be updated
    olNotification,     \* the notification shown, "none" without one
    olEditor            \* the editor added to the active pane, <<>> without one

logViewVars == <<oldLog, newLog, olPc, olNext, olLines, olWorkspaceAlive, olNotification,
                 olEditor>>

\* load_embedded_fonts (zed/src/main.rs 709-731)
VARIABLES
    fontPaths,          \* asset_source.list("fonts"), each path a sequence of characters
    fontPc,             \* "spawning", "blocked", "added" or "panicked"
    fontNext,           \* the place in fontPaths the spawn loop is at
    fontTasks,          \* the scoped tasks, by the place of their path, and their state
    embeddedFonts,      \* the vector behind the mutex: the fonts by the place of their path
    addFontsCalls       \* the arguments add_fonts was called with (history)

fontVars == <<fontPaths, fontPc, fontNext, fontTasks, embeddedFonts, addFontsCalls>>

\* open_local_file (zedxa/src/zed.rs 652-745)
VARIABLES
    visibleWorktrees,   \* the visible worktrees: what the root entry of each is
    dirEntry,           \* the worktree has an entry for the parent directory
    localFile,          \* the file in the worktree: <<>> without an entry, else <<its content>>
    localBuffer,        \* the buffer open on the file: <<>> when none is, else <<its text>>
    localAtStart,       \* dirEntry, localFile and localBuffer before the first invocation
    localTasks,         \* the task of each invocation: where it is
    localNotices        \* how many times the notification was shown

localVars == <<visibleWorktrees, dirEntry, localFile, localBuffer, localAtStart, localTasks,
               localNotices>>

vars == <<loggerVars, kvVars, mainVars, keymapVars, keyVars, quitVars, windowVars, wsVars, cliVars, shellVars, restoreVars, rcVars, logViewVars, fontVars, localVars>>

(***************************************************************************)
(* init_logger: crates/zed/src/main.rs 561-611 (zedxa/src/main.rs 358-408  *)
(* is the same text).                                                      *)
(***************************************************************************)
KIB == 1024
MIB == 1024 * KIB
MAX_LOG_BYTES == MIB

\* Bounds of the logger model.
MaxRuns == 3          \* processes started one after another on the same files
MaxGrowth == 2        \* bytes a log file may grow beyond MAX_LOG_BYTES + 1

\* A file is its length and an identity (which inode/content it is).
NoFile == [exists |-> FALSE, len |-> 0, id |-> 0]
File(len, id) == [exists |-> TRUE, len |-> len, id |-> id]

\* Lengths the log files may have when the first process starts.
InitialLens == {0, 1, MAX_LOG_BYTES - 1, MAX_LOG_BYTES, MAX_LOG_BYTES + 1}

NoInit == [pty |-> TRUE, preLog |-> NoFile, preOld |-> NoFile, renameCalled |-> FALSE,
           renamed |-> FALSE, opened |-> NoFile]

\* main.rs 571-572: std::fs::metadata(log_file).map_or(false, |m| m.len() > MAX_LOG_BYTES).
\* metadata of a missing file is an Err, which map_or turns into false.
ShouldRotateGe(f) == f.exists /\ f.len >= MAX_LOG_BYTES
ShouldRotate(f) == f.exists /\ f.len > MAX_LOG_BYTES

\* main.rs 577-580: OpenOptions::new().create(true).append(true).open(log_file):
\* an existing file is opened as it is, a missing one is created empty.
OpenAppend(f, id) == IF f.exists THEN f ELSE File(0, id)

\* The whole of init_logger. pty is stdout_is_a_pty(); renameOk and openOk are the
\* outcomes of std::fs::rename (its error is dropped by `let _ =`) and of open.
init_logger(pty, renameOk, openOk) ==
    /\ logger = "none"
    /\ IF pty
       THEN /\ logger' = "stdout"
            /\ lastInit' = [NoInit EXCEPT !.pty = TRUE, !.preLog = logFile, !.preOld = oldLogFile]
            /\ UNCHANGED <<logFile, oldLogFile, nextFileId>>
       ELSE LET rotate == ShouldRotate(logFile)
                renamed == rotate /\ renameOk
                log1 == IF renamed THEN NoFile ELSE logFile
                old1 == IF renamed THEN logFile ELSE oldLogFile
                log2 == IF openOk THEN OpenAppend(log1, nextFileId) ELSE log1
            IN  /\ logFile' = log2
                /\ oldLogFile' = old1
                /\ nextFileId' = IF openOk /\ ~log1.exists THEN nextFileId + 1 ELSE nextFileId
                \* Err(err) => init_stdout_logger() (main.rs 602-608)
                /\ logger' = IF openOk THEN "file" ELSE "stdout"
                /\ lastInit' = [pty |-> FALSE, preLog |-> logFile, preOld |-> oldLogFile,
                                renameCalled |-> rotate, renamed |-> renamed,
                                opened |-> IF openOk THEN log2 ELSE NoFile]
    /\ UNCHANGED runs

\* Lengths of the log file the model follows: the lengths around the limit.
TrackedLens == InitialLens \cup (MAX_LOG_BYTES + 2 .. MAX_LOG_BYTES + 1 + MaxGrowth)

\* Log lines written through the installed file logger (log::info!, main.rs 210):
\* the open file grows by n bytes. Only writes that end on a tracked length are followed.
LogWrite(n) ==
    /\ logger = "file"
    /\ logFile.exists
    /\ logFile.len + n \in TrackedLens
    /\ logFile' = [logFile EXCEPT !.len = @ + n]
    /\ UNCHANGED <<oldLogFile, logger, lastInit, nextFileId, runs>>

\* The process ends and a new one is started on the same files.
Restart ==
    /\ logger # "none"
    /\ runs < MaxRuns
    /\ runs' = runs + 1
    /\ logger' = "none"
    /\ UNCHANGED <<logFile, oldLogFile, lastInit, nextFileId>>

LoggerStart ==
    /\ logFile \in {NoFile} \cup {File(n, 1) : n \in InitialLens}
    /\ oldLogFile \in {NoFile} \cup {File(n, 2) : n \in {0, MAX_LOG_BYTES + 1}}
    /\ logger = "none"
    /\ lastInit = NoInit
    /\ nextFileId = 3
    /\ runs = 1

\* The logger part at rest, for the specifications of the other parts.
LoggerIdle ==
    /\ logFile = NoFile
    /\ oldLogFile = NoFile
    /\ logger = "none"
    /\ lastInit = NoInit
    /\ nextFileId = 3
    /\ runs = 1

\* C1: when stdout is not a terminal, init_logger calls rename(log, old) if and only
\* if the log file exists and is strictly longer than 1 MiB; a file of at most 1 MiB
\* (or a missing one) is opened for append in place and .old is left alone; after a
\* rename that succeeded the file opened for append is a new empty file and .old is
\* the previous log file.
C1_RotationPolicy ==
    (logger # "none" /\ ~lastInit.pty) =>
        /\ lastInit.renameCalled <=>
               (lastInit.preLog.exists /\ lastInit.preLog.len > 1048576)
        /\ (~lastInit.renameCalled /\ lastInit.opened.exists) =>
               /\ oldLogFile = lastInit.preOld
               /\ lastInit.preLog.exists => lastInit.opened = lastInit.preLog
        /\ lastInit.renamed =>
               /\ oldLogFile = lastInit.preLog
               /\ lastInit.opened.exists =>
                      /\ lastInit.opened.len = 0
                      /\ lastInit.opened.id \notin {lastInit.preLog.id, lastInit.preOld.id}

\* C1 witness: a rotation happened (the log was longer than 1 MiB and was renamed
\* over an existing .old file) and the process now logs into the new file.
C1_Witness ==
    /\ logger = "file"
    /\ lastInit.renamed
    /\ lastInit.preOld.exists
    /\ lastInit.preLog.len = 1048577
    /\ logFile.id # lastInit.preLog.id


(***************************************************************************)
(* installation_id: crates/zed/src/main.rs 426-450 (zedxa/src/main.rs      *)
(* 307-331 is the same text), and its use in main (215-219, 325-331).      *)
(* KEY_VALUE_STORE (crate db) is not part of the sources; its three        *)
(* operations read_kvp, write_kvp and delete_kvp return a Result, and each *)
(* may fail.                                                               *)
(***************************************************************************)
MaxCalls == 3         \* installation_id calls (one per process start) on one store

NoValue == 0
\* Ids a store may hold before the first call; Uuid::new_v4() gives other values.
StoredIds == {1, 2}

Store(legacy, current) == [device_id |-> legacy, installation_id |-> current]

\* A finished call: Ok((id, existing)) or Err (ok = FALSE), with the store it began on.
Returned(ok, id, existing, pre) == [ok |-> ok, id |-> id, existing |-> existing, pre |-> pre]

\* main.rs 431: if let Ok(Some(installation_id)) = read_kvp(..): the branch is taken
\* only for a read that succeeded and found a value; an Err is treated like None.
ReadFound(readOk, value) == readOk /\ value # NoValue

Finish(result) ==
    /\ iidResults' = Append(iidResults, result)
    /\ iidPc' = "idle"
    /\ iidLocal' = NoValue

\* main.rs 426-431: the call begins and reads the legacy key.
installation_id_begin(readOk) ==
    /\ iidPc = "idle"
    /\ Len(iidResults) < MaxCalls
    /\ iidPre' = kv
    /\ IF ReadFound(readOk, kv.device_id)
       THEN /\ iidLocal' = kv.device_id
            /\ iidPc' = "write_migrated"
       ELSE /\ iidLocal' = NoValue
            /\ iidPc' = "read_current"
    /\ UNCHANGED <<kv, iidResults, nextUuid>>

\* main.rs 432-434: write_kvp(key_name, installation_id).await?
installation_id_write_migrated(writeOk) ==
    /\ iidPc = "write_migrated"
    /\ IF writeOk
       THEN /\ kv' = [kv EXCEPT !.installation_id = iidLocal]
            /\ iidPc' = "delete_legacy"
            /\ UNCHANGED <<iidLocal, iidResults>>
       ELSE /\ Finish(Returned(FALSE, NoValue, FALSE, iidPre))
            /\ UNCHANGED kv
    /\ UNCHANGED <<iidPre, nextUuid>>

\* main.rs 435-436: delete_kvp(legacy_key_name).await?; return Ok((installation_id, true))
installation_id_delete_legacy(deleteOk) ==
    /\ iidPc = "delete_legacy"
    /\ IF deleteOk
       THEN /\ kv' = [kv EXCEPT !.device_id = NoValue]
            /\ Finish(Returned(TRUE, iidLocal, TRUE, iidPre))
       ELSE /\ Finish(Returned(FALSE, NoValue, FALSE, iidPre))
            /\ UNCHANGED kv
    /\ UNCHANGED <<iidPre, nextUuid>>

\* main.rs 439-441: the current key is read; a value found is returned with true.
installation_id_read_current(readOk) ==
    /\ iidPc = "read_current"
    /\ IF ReadFound(readOk, kv.installation_id)
       THEN Finish(Returned(TRUE, kv.installation_id, TRUE, iidPre))
       ELSE /\ iidPc' = "generate"
            /\ UNCHANGED <<iidLocal, iidResults>>
    /\ UNCHANGED <<kv, iidPre, nextUuid>>

\* main.rs 443-449: a new UUID is generated and written under the current key.
installation_id_generate(writeOk) ==
    /\ iidPc = "generate"
    /\ nextUuid' = nextUuid + 1
    /\ IF writeOk
       THEN /\ kv' = [kv EXCEPT !.installation_id = nextUuid]
            /\ Finish(Returned(TRUE, nextUuid, FALSE, iidPre))
       ELSE /\ Finish(Returned(FALSE, NoValue, FALSE, iidPre))
            /\ UNCHANGED kv
    /\ UNCHANGED iidPre

\* main.rs 215-219 and 325-331: .ok().unzip() and the telemetry app event.
AppEvent(result) == IF result.ok /\ ~result.existing THEN "first open" ELSE "open"

KvStart ==
    /\ kv \in {Store(l, c) : l \in StoredIds \cup {NoValue}, c \in StoredIds \cup {NoValue}}
    /\ iidPc = "idle"
    /\ iidLocal = NoValue
    /\ iidPre = kv
    /\ iidResults = <<>>
    /\ nextUuid = 3

KvIdle ==
    /\ kv = Store(NoValue, NoValue)
    /\ iidPc = "idle"
    /\ iidLocal = NoValue
    /\ iidPre = kv
    /\ iidResults = <<>>
    /\ nextUuid = 3

OkResults == {i \in 1..Len(iidResults) : iidResults[i].ok}

LastResult == iidResults[Len(iidResults)]

\* C2 (the claim as stated): whenever the store holds v under "device_id", a call
\* that returns Ok returns (v, true), leaves "installation_id" = v and "device_id"
\* absent; a call that failed (the write or the delete) leaves the legacy key in
\* place; and while a call runs, an id the store held is never under neither key.
C2_LegacyMigrated ==
    /\ (iidPc = "idle" /\ iidResults # <<>> /\ LastResult.pre.device_id # NoValue) =>
          IF LastResult.ok
          THEN /\ LastResult.id = LastResult.pre.device_id
               /\ LastResult.existing
               /\ kv.installation_id = LastResult.pre.device_id
               /\ kv.device_id = NoValue
          ELSE kv.device_id = LastResult.pre.device_id
    /\ (iidPre.device_id # NoValue \/ iidPre.installation_id # NoValue) =>
          (kv.device_id # NoValue \/ kv.installation_id # NoValue)

\* C3 (the claim as stated): every call that returns Ok returns the id the first
\* such call returned; the boolean is false exactly for a call that began on a
\* store holding neither key (the only call that generates an id).
C3_Persistent ==
    \A i \in OkResults :
        /\ \A j \in OkResults : iidResults[i].id = iidResults[j].id
        /\ ~iidResults[i].existing <=>
              (iidResults[i].pre.device_id = NoValue
                  /\ iidResults[i].pre.installation_id = NoValue)


(***************************************************************************)
(* main: crates/zed/src/main.rs 198-361 and crates/zedxa/src/main.rs       *)
(* 115-255. The calls are named as in the source; a call list is the       *)
(* straight-line text of a function for one build (variant, platform).     *)
(***************************************************************************)
MaxReopens == 1       \* on_reopen callbacks delivered by the platform
MaxInitUiCalls == 1   \* calls of init_ui after the one main makes

\* main.rs 200-203: up to and including init_paths.
MainHead == <<"menu::init", "zed_actions::init", "init_paths">>

\* main.rs 208-288 (zedxa 125-191): from init_logger to app.run. ensure_only_instance
\* is compiled only into zed, and only off Linux (#[cfg(not(target_os = "linux"))]).
MainBody(v, p) ==
    <<"init_logger", "App::new", "installation_id", "Session::new", "AppVersion::init",
      "reliability::init_panic_hook">>
    \o (IF v = "zed" /\ p # "linux" THEN <<"ensure_only_instance">> ELSE <<>>)
    \o <<"GitHostingProviderRegistry::new", "RealFs::new", "watch_config_file(settings)",
         "watch_config_file(keymap)", "login_shell_env_loaded", "app.on_reopen", "app.run">>

\* The same closure with the UI brought up first: init_ui and the restore task ahead
\* of the settings, zed::init ahead of release_channel::init.
RunCallsReordered(v) ==
    <<"Fs::set_global", "zed::init", "AppState::set_global", "init_common", "init_ui",
      "release_channel::init", "settings::init", "handle_settings_file_changes",
      "handle_keymap_file_changes", "spawn restore_or_create_workspace">>

\* main.rs 289-360 (zedxa 192-254): the closure given to app.run.
\* (AppCommitSha::set_global is compiled in by option_env!("ZED_COMMIT_SHA"); the
\* build modelled has it unset.)
RunCalls(v) ==
    <<"release_channel::init", "Fs::set_global", "GitHostingProviderRegistry::set_global",
      "git_hosting_providers::init", "settings::init", "handle_settings_file_changes",
      "handle_keymap_file_changes", "client::init_settings", "Client::production",
      "set_http_client", "LanguageRegistry::new", "language::init", "languages::init",
      "UserStore::new", "WorkspaceStore::new", "Client::set_global", "zed::init",
      "Project::init", "client::init", "language::init">>
    \o (IF v = "zed" THEN <<"telemetry.start", "telemetry.report_app_event">> ELSE <<>>)
    \o <<"AppSession::new", "AppState::set_global">>
    \o (IF v = "zed" THEN <<"auto_update::init">> ELSE <<>>)
    \o <<"reliability::init", "init_common", "init_ui", "spawn restore_or_create_workspace">>

\* main.rs 99-103 (zedxa 91-95).
InitCommonCalls == <<"SystemAppearance::init", "theme::init", "command_palette::init">>

\* main.rs 113-193 (zedxa 104-111): init_ui after its AppMode check.
InitUiCalls(v) ==
    IF v = "zed"
    THEN <<"load_embedded_fonts", "languages.set_theme", "editor::init", "image_viewer::init",
           "diagnostics::init", "audio::init", "workspace::init", "recent_projects::init",
           "go_to_line::init", "file_finder::init", "tab_switcher::init",
           "dev_server_projects::init", "outline::init", "project_symbols::init",
           "project_panel::init", "outline_panel::init", "tasks_ui::init", "channel::init",
           "search::init", "vim::init", "terminal_view::init", "journal::init",
           "language_selector::init", "theme_selector::init", "language_tools::init",
           "call::init", "notifications::init", "collab_ui::init", "feedback::init",
           "markdown_preview::init", "welcome::init", "settings_ui::init",
           "extensions_ui::init", "performance::init", "observe_global<SettingsStore>",
           "telemetry.report_setting_event(theme)", "telemetry.report_setting_event(keymap)",
           "telemetry.flush_events", "load_user_themes_in_background", "watch_themes",
           "watch_languages", "watch_file_types", "set_menus", "initialize_workspace",
           "activate", "spawn authenticate">>
    ELSE <<"languages.set_theme", "editor::init", "workspace::init", "tab_switcher::init",
           "theme_selector::init", "welcome::init", "set_menus", "activate">>

\* The globals set, with init_ui not setting AppMode (main.rs 109 left out).
WritesWithoutAppMode(c) ==
    CASE c = "release_channel::init" -> {"ReleaseChannel"}
      [] c = "settings::init" -> {"SettingsStore"}
      [] c = "AppState::set_global" -> {"AppState"}
      [] c = "theme::init" -> {"Theme"}
      [] c = "init_common" -> {"Theme"}
      [] OTHER -> {}

\* The globals a call sets (set_global / init), for the globals of interest.
Writes(c) ==
    CASE c = "release_channel::init" -> {"ReleaseChannel"}      \* main.rs 289
      [] c = "settings::init" -> {"SettingsStore"}              \* main.rs 299
      [] c = "AppState::set_global" -> {"AppState"}             \* main.rs 344
      [] c = "theme::init" -> {"Theme"}                         \* main.rs 101
      [] c = "init_common" -> {"Theme"}                         \* main.rs 348 -> 101
      [] c = "init_ui" -> {"AppMode"}                           \* main.rs 109
      [] OTHER -> {}

\* The globals a call reads through a getter that panics when the global is unset.
Reads(c) ==
    CASE c = "zed::init" -> {"ReleaseChannel"}                  \* zed.rs 72
      [] c = "handle_settings_file_changes" -> {"SettingsStore"}
      [] c = "handle_keymap_file_changes" -> {"SettingsStore"}  \* zed.rs 583-588
      [] c = "client::init_settings" -> {"SettingsStore"}       \* main.rs 303
      [] c = "init_ui" -> {"Theme", "SettingsStore"}            \* main.rs 115, 178
      [] c = "restore_or_create_workspace" -> {"ReleaseChannel", "Theme", "SettingsStore"}
                                                                \* zed.rs 83, 102; main.rs 487
      [] OTHER -> {}

EarlyReadsOf(c, set) == {<<c, g>> : g \in Reads(c) \ set}

IsPrefix(a, b) == Len(a) <= Len(b) /\ \A i \in 1..Len(a) : a[i] = b[i]

Has(seq, x) == \E i \in 1..Len(seq) : seq[i] = x

Pos(seq, x) == IF Has(seq, x) THEN CHOOSE i \in 1..Len(seq) : seq[i] = x /\ \A j \in 1..(i-1) : seq[j] # x
               ELSE 0


Alive == pc \notin {"exited", "panicked"}

\* A call with no branch in it: it is recorded, sets its globals, and any global it
\* reads while unset is recorded.
Plain(c) ==
    /\ trace' = Append(trace, c)
    /\ globals' = globals \cup Writes(c)
    /\ earlyReads' = earlyReads \cup EarlyReadsOf(c, globals)

MainRest == <<spawned, ran, failures, logged, exitCode, prompt, promptButtons, windowOpened,
              appStateStrong, initUiRuns, reopens>>
Build == <<variant, platform, isPty>>

\* main.rs 200-206: menu::init, zed_actions::init, then init_paths; when init_paths
\* fails main calls fail_to_launch and returns.
main_head(pathsOk) ==
    /\ pc = "head"
    /\ LET c == MainHead[ip]
       IN  /\ Plain(c)
           /\ IF c # "init_paths"
              THEN /\ ip' = ip + 1
                   /\ pc' = pc
              ELSE /\ ip' = 1
                   /\ pc' = IF pathsOk THEN "main" ELSE "fail_to_launch"
    /\ UNCHANGED <<Build, MainRest, loggerVars, kvVars>>

\* main.rs 83-91: fail_to_open_window prints and, off Linux only, exits with 1.
FailToOpenWindowExits(p) == p # "linux"

\* main.rs 59-77: fail_to_launch. App::new().run opens a window and shows the prompt,
\* or calls fail_to_open_window when the window cannot be opened.
fail_to_launch(windowOk) ==
    /\ pc = "fail_to_launch"
    /\ trace' = Append(trace, "fail_to_launch")
    /\ IF windowOk
       THEN /\ windowOpened' = "yes"
            /\ prompt' = "pending"
            /\ promptButtons' = <<"Exit">>
            /\ pc' = "fl_loop"
            /\ UNCHANGED exitCode
       ELSE /\ windowOpened' = "no"
            /\ UNCHANGED <<prompt, promptButtons>>
            /\ IF FailToOpenWindowExits(platform)
               THEN pc' = "exited" /\ exitCode' = 1
               ELSE pc' = "fl_loop" /\ UNCHANGED exitCode
    /\ UNCHANGED <<Build, ip, globals, earlyReads, spawned, ran, failures, logged,
                   appStateStrong, initUiRuns, reopens, loggerVars, kvVars>>

\* main.rs 66-71: the task awaiting the prompt. `response.await?` ends the task with
\* an error (logged by detach_and_log_err) when the prompt is dropped unanswered;
\* an answer leads to cx.quit().
prompt_response(answered) ==
    /\ pc = "fl_loop"
    /\ prompt = "pending"
    /\ IF answered
       THEN prompt' = "answered" /\ pc' = "fl_quit"
       ELSE prompt' = "dismissed" /\ pc' = pc
    /\ UNCHANGED <<Build, ip, trace, globals, earlyReads, spawned, ran, failures, logged,
                   exitCode, promptButtons, windowOpened, appStateStrong, initUiRuns,
                   reopens, loggerVars, kvVars>>

\* cx.quit() (main.rs 69): App::run returns, fail_to_launch returns, main returns (205).
QuitRequestedExits == pc' = "exited" /\ exitCode' = 0

app_quit ==
    /\ pc = "fl_quit"
    /\ QuitRequestedExits
    /\ UNCHANGED <<Build, ip, trace, globals, earlyReads, spawned, ran, failures, logged,
                   prompt, promptButtons, windowOpened, appStateStrong, initUiRuns,
                   reopens, loggerVars, kvVars>>

\* main.rs 208-288: the body of main, one call at a time.
CurrentMainCall == MainBody(variant, platform)[ip]

\* main.rs 208: init_logger; which logger it installs is recorded.
main_init_logger ==
    /\ pc = "main" /\ CurrentMainCall = "init_logger"
    /\ \E renameOk \in BOOLEAN, openOk \in BOOLEAN : init_logger(isPty, renameOk, openOk)
    /\ trace' = trace \o <<"init_logger", IF logger' = "stdout" THEN "init_stdout_logger"
                                           ELSE "simplelog::WriteLogger::init">>
    /\ ip' = ip + 1
    /\ UNCHANGED <<Build, pc, globals, earlyReads, MainRest, kvVars>>

\* main.rs 215-219: background_executor().block(installation_id()): main waits for
\* the call to finish.
main_installation_id ==
    /\ pc = "main" /\ CurrentMainCall = "installation_id"
    /\ \E readOk \in BOOLEAN : installation_id_begin(readOk)
    /\ trace' = Append(trace, "installation_id")
    /\ ip' = ip + 1
    /\ pc' = "installation_id"
    /\ UNCHANGED <<Build, globals, earlyReads, MainRest, loggerVars>>

main_installation_id_step ==
    /\ pc = "installation_id"
    /\ \/ \E ok \in BOOLEAN : installation_id_write_migrated(ok)
       \/ \E ok \in BOOLEAN : installation_id_delete_legacy(ok)
       \/ \E ok \in BOOLEAN : installation_id_read_current(ok)
       \/ \E ok \in BOOLEAN : installation_id_generate(ok)
    /\ pc' = IF iidPc' = "idle" THEN "main" ELSE pc
    /\ UNCHANGED <<Build, ip, trace, globals, earlyReads, MainRest, loggerVars>>

\* main.rs 230-237: ensure_only_instance() != IsOnlyInstance::Yes => return.
main_only_instance(yes) ==
    /\ pc = "main" /\ CurrentMainCall = "ensure_only_instance"
    /\ Plain(CurrentMainCall)
    /\ ip' = ip + 1
    /\ IF yes THEN pc' = pc /\ UNCHANGED exitCode
              ELSE pc' = "exited" /\ exitCode' = 0
    /\ UNCHANGED <<Build, spawned, ran, failures, logged, prompt, promptButtons,
                   windowOpened, appStateStrong, initUiRuns, reopens, loggerVars, kvVars>>

\* main.rs 265-271 (zedxa 174): Task::ready(()) on a terminal, otherwise (zed only)
\* load_login_shell_environment is spawned on the background executor.
SpawnsShellEnv(v, pty) == v = "zed" /\ ~pty

main_login_shell_env ==
    /\ pc = "main" /\ CurrentMainCall = "login_shell_env_loaded"
    /\ IF SpawnsShellEnv(variant, isPty)
       THEN /\ spawned' = spawned \cup {<<"shell_env", 0>>}
            /\ trace' = Append(trace, "spawn load_login_shell_environment")
       ELSE /\ spawned' = spawned
            /\ trace' = Append(trace, "Task::ready")
    /\ ip' = ip + 1
    /\ UNCHANGED <<Build, pc, globals, earlyReads, ran, failures, logged, exitCode, prompt,
                   promptButtons, windowOpened, appStateStrong, initUiRuns, reopens,
                   loggerVars, kvVars>>

\* main.rs 288: app.run hands control to the platform, which calls the closure.
main_app_run ==
    /\ pc = "main" /\ CurrentMainCall = "app.run"
    /\ Plain(CurrentMainCall)
    /\ ip' = 1
    /\ pc' = "launching"
    /\ UNCHANGED <<Build, MainRest, loggerVars, kvVars>>

MainSpecial == {"init_logger", "installation_id", "ensure_only_instance",
                "login_shell_env_loaded", "app.run"}

main_call ==
    /\ pc = "main" /\ CurrentMainCall \notin MainSpecial
    /\ Plain(CurrentMainCall)
    /\ ip' = ip + 1
    /\ UNCHANGED <<Build, pc, MainRest, loggerVars, kvVars>>

\* The platform finished launching and calls the closure given to app.run.
finish_launching ==
    /\ pc = "launching"
    /\ pc' = "run"
    /\ UNCHANGED <<Build, ip, trace, globals, earlyReads, MainRest, loggerVars, kvVars>>

\* main.rs 289-360: the closure of app.run, one call at a time.
CurrentRunCall == RunCalls(variant)[ip]

RunSpecial == {"init_common", "init_ui", "spawn restore_or_create_workspace"}

run_call ==
    /\ pc = "run" /\ CurrentRunCall \notin RunSpecial
    /\ Plain(CurrentRunCall)
    /\ ip' = ip + 1
    /\ UNCHANGED <<Build, pc, MainRest, loggerVars, kvVars>>

\* main.rs 348 and 99-103: init_common and the three calls it makes.
run_init_common ==
    /\ pc = "run" /\ CurrentRunCall = "init_common"
    /\ trace' = trace \o <<"init_common">> \o InitCommonCalls
    /\ globals' = globals \cup Writes("init_common")
    /\ earlyReads' = earlyReads \cup EarlyReadsOf("init_common", globals)
    /\ ip' = ip + 1
    /\ UNCHANGED <<Build, pc, MainRest, loggerVars, kvVars>>

\* main.rs 709-731: load_embedded_fonts unwraps asset_source.list, asset_source.load
\* and text_system().add_fonts: each of these failing is a panic.
FontOutcomes == {"ok", "list_failed", "load_failed", "add_fonts_failed"}
LoadEmbeddedFontsPanics(v, fonts) == v = "zed" /\ fonts # "ok"

\* main.rs 105-111: the AppMode check at the top of init_ui.
InitUiReturnsEarlyNever(set) == FALSE
InitUiReturnsEarly(set) == "AppMode" \in set

\* main.rs 105-196 (zedxa 97-113): one call of init_ui. initUiRuns gets the calls
\* this call of init_ui made.
init_ui(fonts) ==
    IF InitUiReturnsEarly(globals)
    THEN /\ initUiRuns' = Append(initUiRuns, <<>>)
         /\ UNCHANGED <<globals, earlyReads, spawned, failures, pc>>
    ELSE /\ globals' = globals \cup Writes("init_ui")
         /\ IF LoadEmbeddedFontsPanics(variant, fonts)
            THEN /\ initUiRuns' = Append(initUiRuns, <<"load_embedded_fonts">>)
                 /\ failures' = failures \cup {<<"fonts", fonts>>}
                 /\ pc' = "panicked"
                 /\ UNCHANGED <<earlyReads, spawned>>
            ELSE /\ initUiRuns' = Append(initUiRuns, InitUiCalls(variant))
                 /\ earlyReads' = earlyReads \cup EarlyReadsOf("init_ui", globals)
                 /\ spawned' = spawned \cup
                        (IF variant = "zed" THEN {<<"themes", 0>>, <<"authenticate", 0>>}
                         ELSE {})
                 /\ UNCHANGED <<failures, pc>>

\* main.rs 350: init_ui(app_state.clone(), cx).unwrap()
run_init_ui ==
    /\ pc = "run" /\ CurrentRunCall = "init_ui"
    /\ \E fonts \in FontOutcomes : init_ui(fonts)
    /\ trace' = trace \o <<"init_ui">> \o initUiRuns'[Len(initUiRuns')]
    /\ ip' = ip + 1
    /\ UNCHANGED <<Build, ran, logged, exitCode, prompt, promptButtons, windowOpened,
                   appStateStrong, reopens, loggerVars, kvVars>>

\* init_ui called again while the application runs (main.rs 106-111: the AppMode
\* global is there for such a call).
init_ui_again ==
    /\ pc = "event_loop"
    /\ Len(initUiRuns) <= MaxInitUiCalls
    /\ \E fonts \in FontOutcomes : init_ui(fonts)
    /\ UNCHANGED <<Build, ip, trace, ran, logged, exitCode, prompt, promptButtons,
                   windowOpened, appStateStrong, reopens, loggerVars, kvVars>>

\* main.rs 192: the authenticate task spawned by init_ui; its error is logged.
authenticate_task(ok) ==
    /\ pc = "event_loop"
    /\ <<"authenticate", 0>> \in spawned
    /\ spawned' = spawned \ {<<"authenticate", 0>>}
    /\ ran' = ran \cup {[task |-> <<"authenticate", 0>>, ok |-> ok]}
    /\ UNCHANGED <<Build, pc, ip, trace, globals, earlyReads, failures, logged, exitCode,
                   prompt, promptButtons, windowOpened, appStateStrong, initUiRuns, reopens,
                   loggerVars, kvVars>>

\* main.rs 351-360: the startup restore task is spawned and the closure returns.
run_spawn_restore ==
    /\ pc = "run" /\ CurrentRunCall = "spawn restore_or_create_workspace"
    /\ Plain(CurrentRunCall)
    /\ spawned' = spawned \cup {<<"restore", 0>>}
    /\ ip' = ip + 1
    /\ pc' = "event_loop"
    /\ UNCHANGED <<Build, ran, failures, logged, exitCode, prompt, promptButtons,
                   windowOpened, appStateStrong, initUiRuns, reopens, loggerVars, kvVars>>

\* main.rs 273-286: the on_reopen callback. It spawns a restore task only when the
\* AppState global is set and its Weak still upgrades.
ReopenSpawnsUnguarded(set, strong) == TRUE
ReopenSpawns(set, strong) == "AppState" \in set /\ strong

on_reopen ==
    /\ pc \in {"launching", "event_loop"}
    /\ Has(trace, "app.on_reopen")
    /\ Len(reopens) < MaxReopens
    /\ LET k == Len(reopens) + 1
           go == ReopenSpawns(globals, appStateStrong)
       IN  /\ reopens' = Append(reopens, [set |-> "AppState" \in globals,
                                          strong |-> appStateStrong, spawns |-> go])
           /\ spawned' = IF go THEN spawned \cup {<<"restore", k>>} ELSE spawned
    /\ UNCHANGED <<Build, pc, ip, trace, globals, earlyReads, ran, failures, logged, exitCode,
                   prompt, promptButtons, windowOpened, appStateStrong, initUiRuns,
                   loggerVars, kvVars>>

\* Every holder of the Arc<AppState> let go of it (main.rs 274: upgrade() gives None
\* from then on). A pending restore task holds a clone (main.rs 277, 352).
app_state_dropped ==
    /\ pc = "event_loop"
    /\ appStateStrong
    /\ ~\E t \in spawned : t[1] = "restore"
    /\ appStateStrong' = FALSE
    /\ UNCHANGED <<Build, pc, ip, trace, globals, earlyReads, spawned, ran, failures, logged,
                   exitCode, prompt, promptButtons, windowOpened, initUiRuns, reopens,
                   loggerVars, kvVars>>

\* main.rs 279-281, 354-356: a restore task runs; an error goes to
\* fail_to_open_window_async (main.rs 79-91).
restore_task(t, ok) ==
    /\ pc = "event_loop"
    /\ t \in spawned /\ t[1] = "restore"
    /\ spawned' = spawned \ {t}
    /\ ran' = ran \cup {[task |-> t, ok |-> ok]}
    /\ earlyReads' = earlyReads \cup EarlyReadsOf("restore_or_create_workspace", globals)
    /\ IF ~ok /\ FailToOpenWindowExits(platform)
       THEN pc' = "exited" /\ exitCode' = 1
       ELSE pc' = pc /\ UNCHANGED exitCode
    /\ UNCHANGED <<Build, ip, trace, globals, failures, logged, prompt, promptButtons,
                   windowOpened, appStateStrong, initUiRuns, reopens, loggerVars, kvVars>>

\* main.rs 734-765: the user-themes task; its error is logged by detach_and_log_err.
ThemeOutcomes == {"ok", "not_a_directory", "create_dir_failed", "load_failed"}

themes_task(outcome) ==
    /\ pc = "event_loop"
    /\ <<"themes", 0>> \in spawned
    /\ spawned' = spawned \ {<<"themes", 0>>}
    /\ ran' = ran \cup {[task |-> <<"themes", 0>>, ok |-> outcome = "ok"]}
    /\ IF outcome = "ok"
       THEN UNCHANGED <<failures, logged>>
       ELSE /\ failures' = failures \cup {<<"themes", outcome>>}
            /\ logged' = logged \cup {<<"themes", outcome>>}
    /\ UNCHANGED <<Build, pc, ip, trace, globals, earlyReads, exitCode, prompt, promptButtons,
                   windowOpened, appStateStrong, initUiRuns, reopens, loggerVars, kvVars>>

\* main.rs 268-270 and 637-687: load_login_shell_environment().await.log_err() on the
\* background executor, concurrent with everything else.
ShellOutcomes == {"ok", "shell_unset", "spawn_failed", "exit_nonzero"}

shell_env_task(outcome) ==
    /\ Alive
    /\ <<"shell_env", 0>> \in spawned
    /\ spawned' = spawned \ {<<"shell_env", 0>>}
    /\ ran' = ran \cup {[task |-> <<"shell_env", 0>>, ok |-> outcome = "ok"]}
    /\ IF outcome = "ok"
       THEN UNCHANGED <<failures, logged>>
       ELSE /\ failures' = failures \cup {<<"shell_env", outcome>>}
            /\ logged' = logged \cup {<<"shell_env", outcome>>}
    /\ UNCHANGED <<Build, pc, ip, trace, globals, earlyReads, exitCode, prompt, promptButtons,
                   windowOpened, appStateStrong, initUiRuns, reopens, loggerVars, kvVars>>

MainStart ==
    /\ variant \in {"zed", "zedxa"}
    /\ platform \in {"linux", "macos", "windows"}
    /\ isPty \in BOOLEAN
    /\ pc = "head"
    /\ ip = 1
    /\ trace = <<>>
    /\ globals = {}
    /\ earlyReads = {}
    /\ spawned = {}
    /\ ran = {}
    /\ failures = {}
    /\ logged = {}
    /\ exitCode = -1
    /\ prompt = "none"
    /\ promptButtons = <<>>
    /\ windowOpened = "untried"
    /\ appStateStrong = TRUE
    /\ initUiRuns = <<>>
    /\ reopens = <<>>

MainIdle ==
    /\ variant = "zed"
    /\ platform = "linux"
    /\ isPty = FALSE
    /\ pc = "head"
    /\ ip = 1
    /\ trace = <<>>
    /\ globals = {}
    /\ earlyReads = {}
    /\ spawned = {}
    /\ ran = {}
    /\ failures = {}
    /\ logged = {}
    /\ exitCode = -1
    /\ prompt = "none"
    /\ promptButtons = <<>>
    /\ windowOpened = "untried"
    /\ appStateStrong = TRUE
    /\ initUiRuns = <<>>
    /\ reopens = <<>>

LaunchFailed == Has(trace, "fail_to_launch")

RestoreTasks == {t \in spawned \cup {r.task : r \in ran} : t[1] = "restore"}

Before(a, b) == Has(trace, a) /\ Pos(trace, a) < Pos(trace, b)

\* C4: when init_paths fails, main calls fail_to_launch and returns without
\* initializing the logger or the application; the prompt has the single button
\* "Exit"; an answered prompt leads to the exit; and when the window could not be
\* opened the process has exited when fail_to_open_window returns, on every platform.
C4_FatalFailureExits ==
    LaunchFailed =>
        /\ ~Has(trace, "init_logger") /\ ~Has(trace, "App::new") /\ ~Has(trace, "app.run")
        /\ logger = "none"
        /\ prompt # "none" => promptButtons = <<"Exit">>
        /\ prompt = "answered" => pc \in {"fl_quit", "exited"}
        /\ windowOpened = "no" => pc = "exited"

\* C5: settings::init, handle_settings_file_changes and handle_keymap_file_changes
\* have run before init_ui is called; the startup restore task is spawned only after
\* init_ui has returned; no restore task, from startup or from on_reopen, exists
\* before settings::init has run.
C5_SettingsBeforeRestore ==
    /\ Has(trace, "init_ui") =>
           /\ Before("settings::init", "init_ui")
           /\ Before("handle_settings_file_changes", "init_ui")
           /\ Before("handle_keymap_file_changes", "init_ui")
           /\ Before("settings::init", "handle_settings_file_changes")
    /\ Has(trace, "spawn restore_or_create_workspace") =>
           /\ Before("init_ui", "spawn restore_or_create_workspace")
           /\ Len(initUiRuns) >= 1 /\ initUiRuns[1] = InitUiCalls(variant)
    /\ <<"restore", 0>> \in RestoreTasks => Has(trace, "spawn restore_or_create_workspace")
    /\ RestoreTasks # {} =>
           /\ Has(trace, "settings::init")
           /\ Has(trace, "handle_settings_file_changes")
           /\ "SettingsStore" \in globals

\* A restore task spawned by on_reopen ran, and so did the startup one.
C5_Witness ==
    /\ \E r \in ran : r.task[1] = "restore" /\ r.task[2] > 0
    /\ \E r \in ran : r.task = <<"restore", 0>>
    /\ Has(trace, "settings::init")

\* C7: a failure of theme loading, of embedded font loading or of login-shell
\* environment sourcing is logged and never panics the application, and init_ui
\* and the spawn of the restore task still run.
C7_ChildFailuresSwallowed ==
    /\ pc # "panicked"
    /\ failures \subseteq logged
    /\ (failures # {} /\ pc = "event_loop") =>
           /\ initUiRuns[1] = InitUiCalls(variant)
           /\ Has(trace, "spawn restore_or_create_workspace")

\* C8: every global is set before the first code that reads it - release_channel::init
\* before zed::init, settings::init before handle_keymap_file_changes, theme::init
\* before init_ui, AppMode before any second init_ui, AppState::set_global before
\* init_common, init_ui and the restore tasks - and on_reopen does nothing when the
\* AppState global is not set or its Arc has been dropped.
C8_GlobalsSetBeforeUse ==
    /\ earlyReads = {}
    /\ Has(trace, "zed::init") => Before("release_channel::init", "zed::init")
    /\ Has(trace, "handle_keymap_file_changes") =>
           Before("settings::init", "handle_keymap_file_changes")
    /\ Has(trace, "init_common") => Before("AppState::set_global", "init_common")
    /\ Has(trace, "init_ui") =>
           /\ Before("theme::init", "init_ui")
           /\ Before("AppState::set_global", "init_ui")
    /\ Len(initUiRuns) >= 1 => "AppMode" \in globals
    /\ \A i \in 2..Len(initUiRuns) : initUiRuns[i] = <<>>
    /\ RestoreTasks # {} => "AppState" \in globals
    /\ \A i \in 1..Len(reopens) :
           /\ reopens[i].spawns <=> (reopens[i].set /\ reopens[i].strong)
           /\ ~reopens[i].spawns => <<"restore", i>> \notin RestoreTasks

\* on_reopen came after the Arc was dropped and did nothing; the startup restore
\* task had run with its globals set.
C8_Witness ==
    /\ pc = "event_loop"
    /\ \E i \in 1..Len(reopens) : reopens[i].set /\ ~reopens[i].strong /\ ~reopens[i].spawns
    /\ \E r \in ran : r.task = <<"restore", 0>>
    /\ Len(initUiRuns) = 2

\* The calls of a run of main that passes init_paths, for a build (v, p), given the
\* logger init_logger installs and what login_shell_env_loaded is made of.
StartupCalls(v, p, lg, sh) ==
    LET body == MainBody(v, p)
        run == RunCalls(v)
        M(i) == IF body[i] = "init_logger" THEN <<"init_logger", lg>>
                ELSE IF body[i] = "login_shell_env_loaded" THEN <<sh>>
                ELSE <<body[i]>>
        R(i) == IF run[i] = "init_common" THEN <<"init_common">> \o InitCommonCalls
                ELSE IF run[i] = "init_ui" THEN <<"init_ui">> \o InitUiCalls(v)
                ELSE <<run[i]>>
        F[i \in 0..Len(body)] == IF i = 0 THEN <<>> ELSE F[i-1] \o M(i)
        G[i \in 0..Len(run)] == IF i = 0 THEN <<>> ELSE G[i-1] \o R(i)
    IN  MainHead \o F[Len(body)] \o G[Len(run)]

InitUiCallCount ==
    LET F[i \in 0..Len(initUiRuns)] == IF i = 0 THEN 0 ELSE F[i-1] + Len(initUiRuns[i])
    IN  F[Len(initUiRuns)]

InitUiCallsMade ==
    UNION {{initUiRuns[i][j] : j \in 1..Len(initUiRuns[i])} : i \in 1..Len(initUiRuns)}

\* C22: after the first call of init_ui the AppMode global is set, and that call
\* made the initializations, set the menus and activated the app (a panic of
\* load_embedded_fonts aside, which ends the process); every later call made no
\* call at all; over all the calls of init_ui each initialization was made at
\* most once.
C22_InitUiIdempotent ==
    /\ initUiRuns # <<>> => "AppMode" \in globals
    /\ (initUiRuns # <<>> /\ pc # "panicked") => initUiRuns[1] = InitUiCalls(variant)
    /\ \A i \in 2..Len(initUiRuns) : initUiRuns[i] = <<>>
    /\ InitUiCallCount = Cardinality(InitUiCallsMade)

\* zedxa called init_ui twice: the first call set the menus and activated the app,
\* the second did nothing.
C22_Witness ==
    /\ variant = "zedxa"
    /\ Len(initUiRuns) = 2
    /\ Has(initUiRuns[1], "set_menus") /\ Has(initUiRuns[1], "activate")
    /\ initUiRuns[2] = <<>>
    /\ InitUiCallCount = Len(InitUiCalls("zedxa"))


(***************************************************************************)
(* The keymap hot-reload loop: crates/zedxa/src/zed.rs 578-650.            *)
(***************************************************************************)
MaxEvents == 3        \* settings updates and keymap file contents, together

\* The BaseKeymap settings taken: the default one (no asset of its own), one with an
\* asset, and None.
BaseKeymaps == {"VSCode", "Atom", "None"}

\* BaseKeymap::asset_path: VSCode and None have no asset of their own.
NoAsset == "no asset"
asset_path(b) ==
    CASE b = "Atom" -> "keymaps/atom.json"
      [] OTHER -> NoAsset

\* The contents a keymap file may have: 0 is malformed, the others are keymaps.
Contents == 0..2

\* KeymapFile::default(), KeymapFile::parse and KeymapFile::add_to_cx: a keymap file
\* is the list of its bindings, parse fails on malformed content, add_to_cx registers
\* the bindings in order.
KeymapFileDefault == <<>>
ParseOk(content) == content # 0
Parse(content) == <<[from |-> "user", keymap |-> content]>>
Asset(path) == <<[from |-> "asset", keymap |-> path]>>

\* zed.rs 636-650 with the vim keymap loaded ahead of the BaseKeymap::None check.
load_default_keymap_vim_first(b, vim) ==
    (IF vim THEN Asset("keymaps/vim.json") ELSE <<>>)
    \o (IF b = "None" THEN <<>>
        ELSE Asset("DEFAULT_KEYMAP_PATH")
             \o (IF asset_path(b) # NoAsset THEN Asset(asset_path(b)) ELSE <<>>))

\* zed.rs 636-650: load_default_keymap, as the bindings it registers.
load_default_keymap(b, vim) ==
    IF b = "None" THEN <<>>
    ELSE Asset("DEFAULT_KEYMAP_PATH")
         \o (IF vim THEN Asset("keymaps/vim.json") ELSE <<>>)
         \o (IF asset_path(b) # NoAsset THEN Asset(asset_path(b)) ELSE <<>>)

\* zed.rs 628-634: reload_keymaps: clear_key_bindings, load_default_keymap, add_to_cx.
reload_keymaps(keymap_content) ==
    /\ bindings' = (<<>> \o load_default_keymap(baseKeymap, vimMode)) \o keymap_content
    /\ reloads' = reloads + 1

EventsSoFar == signalsSent + Len(contentsSent)

\* zed.rs 589-599 with the vim-mode flag left out of the comparison.
update_settings_base_only(b, vim) ==
    /\ EventsSoFar < MaxEvents
    /\ Len(settingsSeen) <= MaxEvents
    /\ baseKeymap' = b
    /\ vimMode' = vim
    /\ settingsSeen' = Append(settingsSeen, <<b, vim>>)
    /\ IF b # oldBaseKeymap
       THEN /\ oldBaseKeymap' = b
            /\ oldVimEnabled' = vim
            /\ baseKeymapRx' = baseKeymapRx + 1
            /\ signalsSent' = signalsSent + 1
       ELSE UNCHANGED <<oldBaseKeymap, oldVimEnabled, baseKeymapRx, signalsSent>>
    /\ UNCHANGED <<userKeymapFileRx, userKeymap, bindings, reloads, contentsSent,
                   keymapNotices>>

\* A settings update, and the observer of zed.rs 589-599 that runs on it.
update_settings(b, vim) ==
    /\ EventsSoFar < MaxEvents
    /\ Len(settingsSeen) <= MaxEvents
    /\ baseKeymap' = b
    /\ vimMode' = vim
    /\ settingsSeen' = Append(settingsSeen, <<b, vim>>)
    /\ IF b # oldBaseKeymap \/ vim # oldVimEnabled
       THEN /\ oldBaseKeymap' = b
            /\ oldVimEnabled' = vim
            /\ baseKeymapRx' = baseKeymapRx + 1
            /\ signalsSent' = signalsSent + 1
       ELSE UNCHANGED <<oldBaseKeymap, oldVimEnabled, baseKeymapRx, signalsSent>>
    /\ UNCHANGED <<userKeymapFileRx, userKeymap, bindings, reloads, contentsSent,
                   keymapNotices>>

\* The watcher of the keymap file sends the file's content.
keymap_file_changed(content) ==
    /\ EventsSoFar < MaxEvents
    /\ userKeymapFileRx' = Append(userKeymapFileRx, content)
    /\ contentsSent' = Append(contentsSent, content)
    /\ UNCHANGED <<baseKeymap, vimMode, oldBaseKeymap, oldVimEnabled, baseKeymapRx,
                   userKeymap, bindings, reloads, signalsSent, keymapNotices, settingsSeen>>

\* zed.rs 610-618: keymap_changed is called with the argument, before the
\* reload_keymaps of this turn (619).
Notice(arg) == [arg |-> arg, reloadsBefore |-> reloads]

\* zed.rs 605-623 with the kept keymap reset to the default on a parse error.
keymap_loop_discarding ==
    /\ baseKeymapRx > 0 \/ userKeymapFileRx # <<>>
    /\ IF baseKeymapRx > 0
       THEN /\ baseKeymapRx' = baseKeymapRx - 1
            /\ reload_keymaps(userKeymap)
            /\ UNCHANGED <<userKeymapFileRx, userKeymap, keymapNotices>>
       ELSE LET content == Head(userKeymapFileRx)
            IN  /\ userKeymapFileRx' = Tail(userKeymapFileRx)
                /\ IF ParseOk(content)
                   THEN /\ keymapNotices' = Append(keymapNotices, Notice("None"))
                        /\ userKeymap' = Parse(content)
                   ELSE /\ keymapNotices' = Append(keymapNotices, Notice("Some(error)"))
                        /\ userKeymap' = KeymapFileDefault
                /\ reload_keymaps(userKeymap')
                /\ UNCHANGED baseKeymapRx
    /\ UNCHANGED <<baseKeymap, vimMode, oldBaseKeymap, oldVimEnabled, signalsSent,
                   contentsSent, settingsSeen>>

\* zed.rs 605-623: one turn of the loop. select_biased! takes the base keymap signal
\* when one waits, else the next file content; then reload_keymaps.
keymap_loop ==
    /\ baseKeymapRx > 0 \/ userKeymapFileRx # <<>>
    /\ IF baseKeymapRx > 0
       THEN /\ baseKeymapRx' = baseKeymapRx - 1
            /\ reload_keymaps(userKeymap)
            /\ UNCHANGED <<userKeymapFileRx, userKeymap, keymapNotices>>
       ELSE LET content == Head(userKeymapFileRx)
            IN  /\ userKeymapFileRx' = Tail(userKeymapFileRx)
                /\ IF ParseOk(content)
                   THEN /\ keymapNotices' = Append(keymapNotices, Notice("None"))
                        /\ userKeymap' = Parse(content)
                   ELSE /\ keymapNotices' = Append(keymapNotices, Notice("Some(error)"))
                        /\ userKeymap' = userKeymap
                /\ reload_keymaps(userKeymap')
                /\ UNCHANGED baseKeymapRx
    /\ UNCHANGED <<baseKeymap, vimMode, oldBaseKeymap, oldVimEnabled, signalsSent,
                   contentsSent, settingsSeen>>

\* zed.rs 578-602: handle_keymap_file_changes up to the spawn of the loop.
KeymapStart ==
    /\ baseKeymap \in BaseKeymaps
    /\ vimMode \in BOOLEAN
    /\ oldBaseKeymap = baseKeymap
    /\ oldVimEnabled = vimMode
    /\ baseKeymapRx = 0
    /\ userKeymapFileRx = <<>>
    /\ userKeymap = KeymapFileDefault
    /\ bindings = load_default_keymap(baseKeymap, vimMode)
    /\ reloads = 0
    /\ signalsSent = 0
    /\ contentsSent = <<>>
    /\ keymapNotices = <<>>
    /\ settingsSeen = <<<<baseKeymap, vimMode>>>>

KeymapIdle ==
    /\ baseKeymap = "VSCode"
    /\ vimMode = FALSE
    /\ oldBaseKeymap = baseKeymap
    /\ oldVimEnabled = vimMode
    /\ baseKeymapRx = 0
    /\ userKeymapFileRx = <<>>
    /\ userKeymap = KeymapFileDefault
    /\ bindings = load_default_keymap(baseKeymap, vimMode)
    /\ reloads = 0
    /\ signalsSent = 0
    /\ contentsSent = <<>>
    /\ keymapNotices = <<>>
    /\ settingsSeen = <<<<baseKeymap, vimMode>>>>

Drained == baseKeymapRx = 0 /\ userKeymapFileRx = <<>>

\* The keymap of the last content of a list that parses, the empty keymap if none does.
LastParsed(sent) ==
    LET good == {i \in 1..Len(sent) : sent[i] # 0}
    IN  IF good = {} THEN <<>>
        ELSE LET last == CHOOSE i \in good : \A j \in good : j <= i
             IN  <<[from |-> "user", keymap |-> sent[last]]>>

SettingsChanges ==
    {i \in 2..Len(settingsSeen) : settingsSeen[i] # settingsSeen[i-1]}

\* C12: on a settings notification a signal is sent exactly when the BaseKeymap or
\* the vim-mode flag differs from the recorded values, which are then updated: the
\* signals sent are as many as the notifications that changed either, the recorded
\* values are those of the last notification, and every signal sent is either
\* waiting in the channel or was received by the loop.
C12_SignalOnChange ==
    /\ signalsSent = Cardinality(SettingsChanges)
    /\ <<oldBaseKeymap, oldVimEnabled>> = settingsSeen[Len(settingsSeen)]
    /\ <<baseKeymap, vimMode>> = settingsSeen[Len(settingsSeen)]
    /\ baseKeymapRx <= signalsSent

\* Three notifications: a change of the vim-mode flag alone, the same settings
\* again, and the change reverted: two signals.
C12_Witness ==
    /\ Len(settingsSeen) = 4
    /\ settingsSeen[2] # settingsSeen[1]
    /\ settingsSeen[2][1] = settingsSeen[1][1]
    /\ settingsSeen[3] = settingsSeen[2]
    /\ settingsSeen[4] = settingsSeen[1]
    /\ signalsSent = 2


\* The contents the loop has taken from the channel so far.
ContentsReceived == SubSeq(contentsSent, 1, Len(contentsSent) - Len(userKeymapFileRx))

MaxPresses == 2       \* key presses in one run of an example

Examples == {"focus", "keyevent", "hello_world_local", "hello2b", "hello2"}

NoFocus == "no focus"
NoParent == "no parent"
NoContext == "no key_context"
None == "None"

Element(id, parent, context, focusable, handlers) ==
    [id |-> id, parent |-> parent, context |-> context, focusable |-> focusable,
     handlers |-> handlers]

\* The element tree render() builds: id (or the name of its focus handle), parent,
\* key_context, track_focus, and the actions it has on_action listeners for.
Tree(ex) ==
    CASE ex = "focus" ->
           {Element("parent", NoParent, "parent", TRUE, {"ActionA", "ActionB"}),
            Element("child-1", "parent", "child-1", TRUE, {"ActionB"}),
            Element("child-2", "parent", "child-2", TRUE, {"ActionC"})}
      [] ex = "keyevent" -> {Element("div", NoParent, NoContext, FALSE, {"ActionA"})}
      [] ex = "hello_world_local" -> {Element("div", NoParent, "parent", FALSE, {})}
      [] ex = "hello2b" -> {Element("bill", NoParent, "hello_joe", TRUE, {})}
      [] ex = "hello2" -> {Element("hello", NoParent, "hello", TRUE, {})}

\* cx.on_action in main: the handlers registered on the application.
GlobalHandlers(ex) ==
    IF ex = "hello_world_local" THEN {"Quit", "QuitLocal"} ELSE {"Quit"}

KeyBinding(key, action, context) == [key |-> key, action |-> action, context |-> context]

\* The examples' bindings with every context predicate dropped.
BindingsWithoutContext(ex) ==
    CASE ex = "focus" ->
           <<KeyBinding("cmd-q", "Quit", None), KeyBinding("cmd-a", "ActionA", None),
             KeyBinding("cmd-a", "ActionB", None), KeyBinding("cmd-c", "ActionC", None)>>
      [] ex = "keyevent" ->
           <<KeyBinding("cmd-a", "ActionA", None), KeyBinding("cmd-q", "Quit", None)>>
      [] ex = "hello_world_local" ->
           <<KeyBinding("cmd-c", "QuitLocal", None), KeyBinding("cmd-q", "Quit", None)>>
      [] ex = "hello2b" ->
           <<KeyBinding("cmd-q", "Quit", None), KeyBinding("cmd-i", "Quit", None)>>
      [] ex = "hello2" -> <<KeyBinding("cmd-q", "Quit", None)>>

\* cx.bind_keys, in the order the calls are made (main first, then the view's new).
Bindings(ex) ==
    CASE ex = "focus" ->
           <<KeyBinding("cmd-q", "Quit", None), KeyBinding("cmd-a", "ActionA", "parent"),
             KeyBinding("cmd-a", "ActionB", "child-1"), KeyBinding("cmd-c", "ActionC", None)>>
      [] ex = "keyevent" ->
           <<KeyBinding("cmd-a", "ActionA", None), KeyBinding("cmd-q", "Quit", None)>>
      [] ex = "hello_world_local" ->
           <<KeyBinding("cmd-c", "QuitLocal", "parent"), KeyBinding("cmd-q", "Quit", "parent")>>
      [] ex = "hello2b" ->
           <<KeyBinding("cmd-q", "Quit", "hello"), KeyBinding("cmd-i", "Quit", "hello_joe")>>
      [] ex = "hello2" -> <<KeyBinding("cmd-q", "Quit", None)>>

BoundKeys(ex) == {Bindings(ex)[i].key : i \in 1..Len(Bindings(ex))}

Focusable(ex) == {e.id : e \in {x \in Tree(ex) : x.focusable}}

ElementOf(ex, id) == CHOOSE e \in Tree(ex) : e.id = id

RootElement(ex) == (CHOOSE e \in Tree(ex) : e.parent = NoParent).id

\* The dispatch path: from the root element down to the element with the focus.
PathTo(ex, id) ==
    IF ElementOf(ex, id).parent = NoParent THEN <<id>>
    ELSE <<ElementOf(ex, id).parent, id>>

\* The key contexts along a dispatch path.
ContextStack(ex, path) ==
    LET F[i \in 0..Len(path)] ==
            IF i = 0 THEN <<>>
            ELSE IF ElementOf(ex, path[i]).context = NoContext THEN F[i-1]
                 ELSE Append(F[i-1], ElementOf(ex, path[i]).context)
    IN  F[Len(path)]

\* How deep in the context stack a binding's predicate is met: 0 for a binding with
\* no predicate, -1 for one whose context is not on the stack.
MatchDepth(b, stack) ==
    IF b.context = None THEN 0
    ELSE IF Has(stack, b.context)
         THEN CHOOSE i \in 1..Len(stack) : stack[i] = b.context /\ \A j \in (i+1)..Len(stack) : stack[j] # b.context
         ELSE -1

\* Where an action dispatched along a path is handled: the deepest element of the
\* path with a listener for it, else the application's handler, else nowhere.
HandledAt(ex, path, action) ==
    LET on == {i \in 1..Len(path) : action \in ElementOf(ex, path[i]).handlers}
    IN  IF on # {} THEN {path[CHOOSE i \in on : \A j \in on : j <= i]}
        ELSE IF action \in GlobalHandlers(ex) THEN {"global"}
        ELSE {}

\* A key press dispatched along a path: of the bindings of the key whose predicate
\* is met, the one met deepest (the last bound among equals) whose action has a
\* handler is dispatched, and that handler stops the propagation.
Dispatch(ex, path, key, needsContext) ==
    LET bs == Bindings(ex)
        stack == ContextStack(ex, path)
        cand == {i \in 1..Len(bs) :
                    /\ bs[i].key = key
                    /\ MatchDepth(bs[i], stack) >= 0
                    /\ ~(needsContext /\ stack = <<>>)
                    /\ HandledAt(ex, path, bs[i].action) # {}}
        Rank(i) == MatchDepth(bs[i], stack) * (Len(bs) + 1) + i
    IN  IF cand = {} THEN {}
        ELSE LET w == CHOOSE i \in cand : \A j \in cand : Rank(j) <= Rank(i)
             IN  {<<CHOOSE h \in HandledAt(ex, path, bs[w].action) : TRUE, bs[w].action>>}

\* A mouse down on an element with track_focus gives it the focus.
click(id) ==
    /\ ~quit
    /\ id \in Focusable(example)
    /\ focus # id
    /\ focus' = id
    /\ UNCHANGED <<example, presses, quit>>

\* A key press in the example's window. With no focus handle focused, what the
\* dispatch path holds (the window's root alone, or the root element too) and
\* whether bindings are matched at all with no key context on it is the toolkit's
\* choice: every outcome is taken.
press_key(key) ==
    /\ ~quit
    /\ Len(presses) < MaxPresses
    /\ key \in BoundKeys(example)
    /\ \E path \in IF focus # NoFocus THEN {PathTo(example, focus)}
                   ELSE {<<>>, <<RootElement(example)>>},
          needsContext \in IF focus # NoFocus THEN {FALSE} ELSE BOOLEAN :
          LET invoked == Dispatch(example, path, key, needsContext)
          IN  /\ presses' = Append(presses, [key |-> key, focus |-> focus,
                                             invoked |-> invoked])
              /\ quit' = (<<"global", "Quit">> \in invoked)
    /\ UNCHANGED <<example, focus>>

KeysStart ==
    /\ example \in Examples
    /\ focus = NoFocus
    /\ presses = <<>>
    /\ quit = FALSE

KeysIdle ==
    /\ example = "hello2"
    /\ focus = NoFocus
    /\ presses = <<>>
    /\ quit = FALSE

Actions(invoked) == {h[2] : h \in invoked}

MaxWindows == 3       \* workspace windows open when Quit is dispatched

\* What WindowHandle::is_active gives for a window.
ActiveStates == {"Some(true)", "Some(false)", "None"}

\* zed.rs 448 with only a window known to be active put first.
SortKeyNotKnownActive(active) == active # "Some(true)"

\* zed.rs 448: the sort key, window.is_active(cx) == Some(false).
SortKey(active) == active = "Some(false)"

\* Vec::sort_by_key is stable: the windows whose key is false, then those whose key
\* is true, each group in its former order.
SortByKey(ws) ==
    SelectSeq(ws, LAMBDA w : ~SortKey(windows[w]))
    \o SelectSeq(ws, LAMBDA w : SortKey(windows[w]))

\* zed.rs 465 with a dropped prompt taken for a confirmation.
QuitConfirmedUnlessCancelled(answer) == answer # "Some(1)"

\* zed.rs 464-467: answer.await.ok() must be Some(0), the "Quit" button.
QuitConfirmed(answer) == answer = "Some(0)"

\* zed.rs 435-470: the action reads confirm_quit, the task collects and sorts the
\* workspace windows and, when should_confirm and there is a first window, shows the
\* prompt there and waits for the answer.
quit_action ==
    /\ quitPc = "idle"
    /\ quitOrder' = SortByKey([i \in 1..Len(windows) |-> i])
    /\ IF shouldConfirm /\ Len(windows) > 0
       THEN /\ quitPrompt' = <<quitOrder'[1], <<"Quit", "Cancel">> >>
            /\ quitPc' = "confirm"
       ELSE /\ quitPrompt' = quitPrompt
            /\ quitPc' = "loop"
    /\ UNCHANGED <<windows, openWindows, shouldConfirm, quitNext, quitAnswer, quitAsked,
                   quitPending, quitCalled>>

\* zed.rs 463-468: the answer arrives: Some(0) for "Quit", Some(1) for "Cancel", None
\* when the prompt was dropped before it was answered.
confirm_answered(answer) ==
    /\ quitPc = "confirm"
    /\ quitAnswer' = answer
    /\ quitPc' = IF QuitConfirmed(answer) THEN "loop" ELSE "returned"
    /\ UNCHANGED <<windows, openWindows, shouldConfirm, quitOrder, quitNext, quitPrompt,
                   quitAsked, quitPending, quitCalled>>

\* zed.rs 473-486: the next turn of the for loop. window.update fails for a window
\* that is closed by now: log_err, and the loop goes on to the next window. After
\* the last window, cx.quit().
quit_loop ==
    /\ quitPc = "loop"
    /\ IF quitNext > Len(quitOrder)
       THEN /\ quitCalled' = TRUE
            /\ quitPc' = "returned"
            /\ UNCHANGED <<quitNext, quitAsked, quitPending>>
       ELSE LET w == quitOrder[quitNext]
            IN  /\ quitNext' = quitNext + 1
                /\ IF w \in openWindows
                   THEN /\ quitAsked' = Append(quitAsked, <<w, "pending">>)
                        /\ quitPending' = quitPending \cup {w}
                        /\ quitPc' = "closing"
                   ELSE /\ quitAsked' = Append(quitAsked, <<w, "update failed">>)
                        /\ UNCHANGED <<quitPending, quitPc>>
                /\ UNCHANGED quitCalled
    /\ UNCHANGED <<windows, openWindows, shouldConfirm, quitOrder, quitPrompt, quitAnswer>>

\* zed.rs 480-482: should_close.await?: Ok(true) goes on, Ok(false) returns Ok(()),
\* Err returns the error.
prepare_to_close_resolved(result) ==
    /\ quitPc = "closing"
    /\ quitAsked' = [quitAsked EXCEPT ![Len(quitAsked)] = <<quitAsked[Len(quitAsked)][1], result>>]
    /\ quitPending' = quitPending \ {quitAsked[Len(quitAsked)][1]}
    /\ quitPc' = IF result = "Ok(true)" THEN "loop" ELSE "returned"
    /\ UNCHANGED <<windows, openWindows, shouldConfirm, quitOrder, quitNext, quitPrompt,
                   quitAnswer, quitCalled>>

\* While the task waits, the user closes another window (one the task is not
\* waiting on).
window_closed(w) ==
    /\ quitPc \in {"confirm", "closing"}
    /\ w \in openWindows
    /\ w \notin quitPending
    /\ ~(quitPc = "confirm" /\ w = quitPrompt[1])
    /\ openWindows' = openWindows \ {w}
    /\ UNCHANGED <<windows, shouldConfirm, quitPc, quitOrder, quitNext, quitPrompt,
                   quitAnswer, quitAsked, quitPending, quitCalled>>

QuitStart ==
    /\ \E n \in 0..MaxWindows : windows \in [1..n -> ActiveStates]
    /\ openWindows = 1..Len(windows)
    /\ shouldConfirm \in BOOLEAN
    /\ quitPc = "idle"
    /\ quitOrder = <<>>
    /\ quitNext = 1
    /\ quitPrompt = <<>>
    /\ quitAnswer = "none"
    /\ quitAsked = <<>>
    /\ quitPending = {}
    /\ quitCalled = FALSE

QuitIdle ==
    /\ windows = <<>>
    /\ openWindows = {}
    /\ shouldConfirm = FALSE
    /\ quitPc = "idle"
    /\ quitOrder = <<>>
    /\ quitNext = 1
    /\ quitPrompt = <<>>
    /\ quitAnswer = "none"
    /\ quitAsked = <<>>
    /\ quitPending = {}
    /\ quitCalled = FALSE

QuitAllowedByConfirmation ==
    ~shouldConfirm \/ Len(windows) = 0 \/ quitAnswer = "Some(0)"

StoppedWithoutQuit == quitPc = "returned" /\ ~quitCalled

\* C11 as stated: cx.quit() is called only after the confirmation allowed it and
\* prepare_to_close resolved to true for every workspace window; any other answer,
\* and a prepare_to_close resolving to false or an error, ends the task without
\* cx.quit() and without asking a later window.
C11_QuitOnlyWhenEveryWindowAgrees ==
    /\ quitCalled =>
           /\ QuitAllowedByConfirmation
           /\ \A w \in 1..Len(windows) :
                  \E i \in 1..Len(quitAsked) : quitAsked[i] = <<w, "Ok(true)">>
    /\ quitAnswer \in {"Some(1)", "None"} => StoppedWithoutQuit /\ quitAsked = <<>>
    /\ \A i \in 1..Len(quitAsked) :
           quitAsked[i][2] \in {"Ok(false)", "Err"} =>
               StoppedWithoutQuit /\ i = Len(quitAsked)

\* C11 amended: cx.quit() is called only after the confirmation allowed it and
\* prepare_to_close resolved to true for every workspace window that was still open
\* when its turn came; a window closed in the meantime is passed over (the failed
\* update is logged). Any other answer, and a prepare_to_close resolving to false or
\* an error, ends the task without cx.quit() and without asking a later window.
C11_QuitOnlyWhenNobodyCancels ==
    /\ quitCalled =>
           /\ QuitAllowedByConfirmation
           /\ Len(quitAsked) = Len(windows)
           /\ \A i \in 1..Len(quitAsked) :
                  \/ quitAsked[i][2] = "Ok(true)"
                  \/ quitAsked[i][2] = "update failed" /\ quitAsked[i][1] \notin openWindows
    /\ \A i \in 1..Len(quitAsked) :
           quitAsked[i][2] = "update failed" => quitAsked[i][1] \notin openWindows
    /\ quitAnswer \in {"Some(1)", "None"} => StoppedWithoutQuit /\ quitAsked = <<>>
    /\ \A i \in 1..Len(quitAsked) :
           quitAsked[i][2] \in {"Ok(false)", "Err"} =>
               StoppedWithoutQuit /\ i = Len(quitAsked)

\* The quit was confirmed, one window agreed, another had been closed meanwhile, and
\* cx.quit() was called.
C11_Witness ==
    /\ quitCalled
    /\ shouldConfirm /\ quitAnswer = "Some(0)"
    /\ \E i \in 1..Len(quitAsked) : quitAsked[i][2] = "Ok(true)"
    /\ \E i \in 1..Len(quitAsked) : quitAsked[i][2] = "update failed"

\* C18: the windows are sorted stably, those whose is_active is Some(true) or None
\* before those that are Some(false); the confirmation is shown in the first of
\* them; prepare_to_close is called for the windows in that order, one at a time.
C18_ActiveFirstOrder ==
    quitPc # "idle" =>
        /\ Len(quitOrder) = Len(windows)
        /\ {quitOrder[i] : i \in 1..Len(quitOrder)} = 1..Len(windows)
        /\ \A i, j \in 1..Len(quitOrder) :
               i < j =>
                   LET a == windows[quitOrder[i]]
                       b == windows[quitOrder[j]]
                   IN  /\ ~(a = "Some(false)" /\ b \in {"Some(true)", "None"})
                       /\ ((a = "Some(false)") <=> (b = "Some(false)")) =>
                              quitOrder[i] < quitOrder[j]
        /\ quitPrompt # <<>> =>
               quitPrompt = <<quitOrder[1], <<"Quit", "Cancel">> >>
        /\ (shouldConfirm /\ Len(windows) > 0) => quitPrompt # <<>>
        /\ \A i \in 1..Len(quitAsked) : quitAsked[i][1] = quitOrder[i]
        /\ Cardinality(quitPending) <= 1
        /\ quitPending # {} => quitPc = "closing"

\* Three windows, inactive, unknown, active: asked in the order 2, 3, 1.
C18_Witness ==
    /\ windows = <<"Some(false)", "None", "Some(true)">>
    /\ quitOrder = <<2, 3, 1>>
    /\ Len(quitAsked) = 3
    /\ quitAsked[3] = <<1, "Ok(true)">>
    /\ quitCalled


(***************************************************************************)
(* build_window_options: crates/zedxa/src/zed.rs 77-110.                   *)
(***************************************************************************)
MaxDisplays == 2

Uuids == {"uuid-a", "uuid-b"}

\* std::env::var is Err for a variable that is not set and for one whose value
\* is not valid unicode.
VarErrors == {"NotPresent", "NotUnicode"}

DecorationValues == {"server", "client", "Server", "server ", "", "none"}

\* The match of zed.rs 84-88 with Server as the fallback arm.
WindowDecorationsServerFallback(var) ==
    IF var = "client" THEN "Client" ELSE "Server"

\* zed.rs 84-88
WindowDecorations(var) ==
    IF var \in VarErrors THEN "Client"
    ELSE IF var = "server" THEN "Server"
    ELSE IF var = "client" THEN "Client"
    ELSE "Client"

\* zed.rs 78-82: the first connected display that reports the uuid; a display is
\* identified by its place in cx.displays(), and an Option is a sequence of at
\* most one element.
FindDisplay(uuid, ds) ==
    IF uuid = "None" THEN <<>>
    ELSE IF \E i \in 1..Len(ds) : ds[i] = uuid
         THEN <<CHOOSE i \in 1..Len(ds) : ds[i] = uuid /\ \A j \in 1..(i-1) : ds[j] # uuid>>
         ELSE <<>>

\* zed.rs 90-109 (the fields the callers read)
WindowOptions(uuid, ds, var) ==
    [ focus |-> FALSE,
      show |-> FALSE,
      display_id |-> FindDisplay(uuid, ds),
      window_decorations |-> WindowDecorations(var),
      window_min_size |-> [width |-> 360, height |-> 240] ]

build_window_options ==
    /\ windowOptions = <<>>
    /\ windowOptions' = <<WindowOptions(displayUuid, displays, decorationsEnv)>>
    /\ UNCHANGED <<decorationsEnv, displayUuid, displays>>

WindowStart ==
    /\ decorationsEnv \in VarErrors \cup DecorationValues
    /\ displayUuid \in {"None"} \cup Uuids
    /\ \E n \in 0..MaxDisplays : displays \in [1..n -> Uuids \cup {"Err"}]
    /\ windowOptions = <<>>

WindowIdle ==
    /\ decorationsEnv = "NotPresent"
    /\ displayUuid = "None"
    /\ displays = <<>>
    /\ windowOptions = <<>>

\* C13: the options returned have Server decorations exactly when
\* ZED_WINDOW_DECORATIONS is "server" and Client decorations otherwise; display_id
\* is Some exactly when a display_uuid was given and a connected display reports
\* it, and is then such a display; show and focus are false and the minimum size
\* is 360x240 whatever the inputs.
C13_WindowOptions ==
    windowOptions # <<>> =>
        /\ windowOptions[1].window_decorations = "Server" <=> decorationsEnv = "server"
        /\ windowOptions[1].window_decorations \in {"Server", "Client"}
        /\ windowOptions[1].display_id # <<>> <=>
               /\ displayUuid # "None"
               /\ \E i \in 1..Len(displays) : displays[i] = displayUuid
        /\ windowOptions[1].display_id # <<>> =>
               displays[windowOptions[1].display_id[1]] = displayUuid
        /\ ~windowOptions[1].show
        /\ ~windowOptions[1].focus
        /\ windowOptions[1].window_min_size = [width |-> 360, height |-> 240]

\* Server decorations asked for, and the second of two displays is the one asked for.
C13_Witness ==
    /\ windowOptions # <<>>
    /\ decorationsEnv = "server"
    /\ windowOptions[1].window_decorations = "Server"
    /\ Len(displays) = 2
    /\ displays[1] = "Err"
    /\ windowOptions[1].display_id = <<2>>


(***************************************************************************)
(* initialize_workspace: crates/zedxa/src/zed.rs 112-184.                  *)
(***************************************************************************)
MaxCloseRequests == 2

\* zed.rs 208-210 and 222-224: the panels loaded, in the order they are added.
PanelOrder == <<"project_panel", "outline_panel", "terminal_panel">>

Panels == {PanelOrder[i] : i \in 1..Len(PanelOrder)}

GpuSpecs == {"None", "Some(hardware)", "Some(software emulated)"}

AllowEmulatedValues == {"1", ""}

PromptAnswers == {"Ok(0)", "Ok(1)", "Err(Canceled)"}

\* zed.rs 127-129
ShowsGpuPrompt(specs, var) ==
    /\ specs # "None"
    /\ specs = "Some(software emulated)"
    /\ var \in VarErrors

\* zed.rs 175-184 with a callback that always allows the close.
WindowShouldCloseAllowed(alive) ==
    [close_window |-> alive, result |-> TRUE]

\* zed.rs 175-184: handle.update(..) runs the closure on a live workspace, and
\* is an error, turned into true by unwrap_or, on a released one.
WindowShouldClose(alive) ==
    IF alive
    THEN [close_window |-> TRUE, result |-> FALSE]
    ELSE [close_window |-> FALSE, result |-> TRUE]

\* The observe_new_views callback, zed.rs 113-228: it also spawns the task that
\* loads the panels (207-228).
initialize_workspace ==
    /\ wsPc = "new"
    /\ wsPc' = "ready"
    /\ gpuPrompt' = IF ShowsGpuPrompt(gpuSpecs, allowEmulatedEnv) THEN "shown" ELSE "none"
    /\ statusBarItems' = TRUE
    /\ panelLoads' = [p \in Panels |-> "pending"]
    /\ panelsPc' = "try_join"
    /\ UNCHANGED <<gpuSpecs, allowEmulatedEnv, wsAlive, gpuAnswer, urlOpened, wsQuit,
                   closeRequests, wsPanels, wsFocused, panelsResult>>

\* The task of zed.rs 140-147.
gpu_prompt_resolved(answer) ==
    /\ gpuPrompt = "shown"
    /\ ~wsQuit
    /\ gpuPrompt' = "resolved"
    /\ gpuAnswer' = answer
    /\ urlOpened' = (answer = "Ok(1)")
    /\ wsQuit' = (answer = "Ok(1)")
    /\ UNCHANGED <<gpuSpecs, allowEmulatedEnv, wsPc, wsAlive, statusBarItems, closeRequests>>
    /\ UNCHANGED <<panelLoads, panelsPc, wsPanels, wsFocused, panelsResult>>

\* The platform asks whether the window may close.
window_should_close ==
    /\ wsPc = "ready"
    /\ ~wsQuit
    /\ Len(closeRequests) < MaxCloseRequests
    /\ closeRequests' = Append(closeRequests,
                               [alive |-> wsAlive] @@ WindowShouldClose(wsAlive))
    /\ UNCHANGED <<gpuSpecs, allowEmulatedEnv, wsPc, wsAlive, statusBarItems, gpuPrompt,
                   gpuAnswer, urlOpened, wsQuit>>
    /\ UNCHANGED <<panelLoads, panelsPc, wsPanels, wsFocused, panelsResult>>

\* The workspace view is released while its window is still there.
workspace_released ==
    /\ wsPc = "ready"
    /\ wsAlive
    /\ ~wsQuit
    /\ wsAlive' = FALSE
    /\ UNCHANGED <<gpuSpecs, allowEmulatedEnv, wsPc, statusBarItems, gpuPrompt, gpuAnswer,
                   urlOpened, wsQuit, closeRequests>>
    /\ UNCHANGED <<panelLoads, panelsPc, wsPanels, wsFocused, panelsResult>>

\* zed.rs 208-210 with the first load that fails not ending the join.
TryJoinAll(loads) ==
    IF \E p \in Panels : loads[p] = "pending" THEN "pending"
    ELSE IF \E p \in Panels : loads[p] = "Err" THEN "Err"
    ELSE "Ok"

\* zed.rs 211-219: futures::try_join! is an error as soon as one load is, and is
\* Ok when all three are.
TryJoin(loads) ==
    IF \E p \in Panels : loads[p] = "Err" THEN "Err"
    ELSE IF \A p \in Panels : loads[p] = "Ok" THEN "Ok"
    ELSE "pending"

\* One of the three loads resolves while try_join! polls them; an error returns
\* from the task through the ?.
panel_load_resolved(p, ok) ==
    /\ panelsPc = "try_join"
    /\ ~wsQuit
    /\ panelLoads[p] = "pending"
    /\ panelLoads' = [panelLoads EXCEPT ![p] = IF ok THEN "Ok" ELSE "Err"]
    /\ LET joined == TryJoin(panelLoads')
       IN  /\ panelsPc' = CASE joined = "Ok" -> "joined"
                            [] joined = "Err" -> "returned"
                            [] OTHER -> "try_join"
           /\ panelsResult' = IF joined = "Err" THEN "Err(load)" ELSE panelsResult
    /\ UNCHANGED <<wsPanels, wsFocused>>
    /\ UNCHANGED <<gpuSpecs, allowEmulatedEnv, wsPc, wsAlive, statusBarItems, gpuPrompt,
                   gpuAnswer, urlOpened, wsQuit, closeRequests>>
\* zed.rs 221-226: workspace_handle.update adds the panels and focuses the
\* workspace, or is an error for a released workspace.
add_panels ==
    /\ panelsPc = "joined"
    /\ ~wsQuit
    /\ panelsPc' = "returned"
    /\ IF wsAlive
       THEN /\ wsPanels' = wsPanels \o PanelOrder
            /\ wsFocused' = TRUE
            /\ panelsResult' = "Ok"
       ELSE /\ panelsResult' = "Err(update)"
            /\ UNCHANGED <<wsPanels, wsFocused>>
    /\ UNCHANGED panelLoads
    /\ UNCHANGED <<gpuSpecs, allowEmulatedEnv, wsPc, wsAlive, statusBarItems, gpuPrompt,
                   gpuAnswer, urlOpened, wsQuit, closeRequests>>
WorkspaceStart ==
    /\ gpuSpecs \in GpuSpecs
    /\ allowEmulatedEnv \in VarErrors \cup AllowEmulatedValues
    /\ wsPc = "new"
    /\ wsAlive = TRUE
    /\ statusBarItems = FALSE
    /\ gpuPrompt = "none"
    /\ gpuAnswer = "none"
    /\ urlOpened = FALSE
    /\ wsQuit = FALSE
    /\ closeRequests = <<>>
    /\ panelLoads = [p \in Panels |-> "not started"]
    /\ panelsPc = "none"
    /\ wsPanels = <<>>
    /\ wsFocused = FALSE
    /\ panelsResult = "none"

WorkspaceIdle ==
    /\ gpuSpecs = "None"
    /\ allowEmulatedEnv = "NotPresent"
    /\ wsPc = "new"
    /\ wsAlive = TRUE
    /\ statusBarItems = FALSE
    /\ gpuPrompt = "none"
    /\ gpuAnswer = "none"
    /\ urlOpened = FALSE
    /\ wsQuit = FALSE
    /\ closeRequests = <<>>
    /\ panelLoads = [p \in Panels |-> "not started"]
    /\ panelsPc = "none"
    /\ wsPanels = <<>>
    /\ wsFocused = FALSE
    /\ panelsResult = "none"

\* C14: for a workspace that was created, the "Unsupported GPU" prompt was shown
\* exactly when GPU specs are available, the GPU is software emulated and
\* ZED_ALLOW_EMULATED_GPU is not set; the URL was opened and the app quit only when
\* the prompt resolved to Ok(1); the status bar items were added, and after any
\* other answer the app has not quit.
C14_GpuPrompt ==
    wsPc = "ready" =>
        /\ gpuPrompt # "none" <=>
               /\ gpuSpecs = "Some(software emulated)"
               /\ allowEmulatedEnv = "NotPresent"
        /\ (urlOpened \/ wsQuit) => (gpuPrompt = "resolved" /\ gpuAnswer = "Ok(1)")
        /\ statusBarItems
        /\ (gpuPrompt = "resolved" /\ gpuAnswer # "Ok(1)") => (~wsQuit /\ ~urlOpened)

\* C25: the workspace has no panel or the three panels in the order project,
\* outline, terminal; it has them, and was focused, exactly when the task returned
\* Ok, which it does only after all three loads succeeded; once a load has failed
\* the task has returned that error and no panel is ever added, whatever the other
\* loads did; and the update fails, adding nothing, only after three successful
\* loads on a workspace that was released.
C25_PanelsAllOrNothing ==
    /\ wsPanels \in {<<>>, <<"project_panel", "outline_panel", "terminal_panel">>}
    /\ wsPanels # <<>> <=> panelsResult = "Ok"
    /\ wsFocused <=> wsPanels # <<>>
    /\ panelsResult = "Ok" => \A p \in Panels : panelLoads[p] = "Ok"
    /\ (\E p \in Panels : panelLoads[p] = "Err") <=> panelsResult = "Err(load)"
    /\ panelsResult = "Err(update)" =>
           /\ \A p \in Panels : panelLoads[p] = "Ok"
           /\ ~wsAlive
    /\ panelsPc = "returned" <=> panelsResult # "none"

\* All three loads succeeded on a workspace that is still there: the panels were
\* added in the fixed order and the workspace focused.
C25_Witness ==
    /\ panelsResult = "Ok"
    /\ \A p \in Panels : panelLoads[p] = "Ok"
    /\ wsPanels = <<"project_panel", "outline_panel", "terminal_panel">>
    /\ wsFocused
    /\ wsAlive

\* C20: every call of the on_window_should_close callback on a live workspace
\* called workspace.close_window and returned false, and a call returned true only
\* when the workspace could no longer be updated, where it called nothing.
C20_CloseVetoed ==
    \A i \in 1..Len(closeRequests) :
        /\ closeRequests[i].alive =>
               (closeRequests[i].close_window /\ ~closeRequests[i].result)
        /\ closeRequests[i].result =>
               (~closeRequests[i].alive /\ ~closeRequests[i].close_window)

\* A close request on the live workspace, and one after the workspace was released.
C20_Witness ==
    /\ Len(closeRequests) = 2
    /\ closeRequests[1].alive
    /\ ~closeRequests[1].result
    /\ ~closeRequests[2].alive
    /\ closeRequests[2].result


(***************************************************************************)
(* stdout_is_a_pty and what main and authenticate do with it:              *)
(* crates/zed/src/main.rs 689-691, 208, 265-271, 413-424.                  *)
(***************************************************************************)
ForceCliValues == {"1", ""}

\* main.rs 689-691: env::var(..).ok().is_none() && stdout().is_terminal()
stdout_is_a_pty(var, terminal) == var \in VarErrors /\ terminal

\* main.rs 413-424: the arguments of the authenticate_and_connect calls made.
AuthenticateCalls(pty, dev, impersonate, credentials) ==
    IF pty
    THEN IF dev THEN <<TRUE>>
         ELSE IF impersonate THEN <<FALSE>>
         ELSE <<>>
    ELSE IF credentials THEN <<TRUE>> ELSE <<>>

\* main.rs 208: init_logger() in this process.
cli_init_logger ==
    /\ cliPc = "init_logger"
    /\ \E renameOk \in BOOLEAN, openOk \in BOOLEAN :
           init_logger(stdout_is_a_pty(forceCliEnv, isTerminal), renameOk, openOk)
    /\ cliPc' = "login_shell_env_loaded"
    /\ UNCHANGED <<forceCliEnv, isTerminal, developmentAuth, impersonateLogin,
                   hasCredentials, shellTask, authCalls>>

\* main.rs 265-271
cli_login_shell_env ==
    /\ cliPc = "login_shell_env_loaded"
    /\ shellTask' = IF SpawnsShellEnv("zed", stdout_is_a_pty(forceCliEnv, isTerminal))
                    THEN "spawned" ELSE "Task::ready"
    /\ cliPc' = "authenticate"
    /\ UNCHANGED <<forceCliEnv, isTerminal, developmentAuth, impersonateLogin,
                   hasCredentials, authCalls>>

\* main.rs 413-424, the task spawned by init_ui (192).
authenticate ==
    /\ cliPc = "authenticate"
    /\ authCalls' = AuthenticateCalls(stdout_is_a_pty(forceCliEnv, isTerminal),
                                      developmentAuth, impersonateLogin, hasCredentials)
    /\ cliPc' = "done"
    /\ UNCHANGED <<forceCliEnv, isTerminal, developmentAuth, impersonateLogin,
                   hasCredentials, shellTask>>

CliStart ==
    /\ forceCliEnv \in VarErrors \cup ForceCliValues
    /\ isTerminal \in BOOLEAN
    /\ developmentAuth \in BOOLEAN
    /\ impersonateLogin \in BOOLEAN
    /\ hasCredentials \in BOOLEAN
    /\ cliPc = "init_logger"
    /\ shellTask = "none"
    /\ authCalls = <<>>

CliIdle ==
    /\ forceCliEnv = "NotPresent"
    /\ isTerminal = FALSE
    /\ developmentAuth = FALSE
    /\ impersonateLogin = FALSE
    /\ hasCredentials = FALSE
    /\ cliPc = "init_logger"
    /\ shellTask = "none"
    /\ authCalls = <<>>

\* What the claim gives for stdout_is_a_pty: false whenever the variable is set,
\* whatever its value, and the terminal test otherwise.
PtyWhenSetOverrides == forceCliEnv = "NotPresent" /\ isTerminal

\* C15: with the force-CLI-mode variable set to any value stdout_is_a_pty is false,
\* and otherwise it is whether stdout is a terminal; when it is false main takes
\* the log file branch of init_logger and spawns the login shell load, when it is
\* true main logs to stdout and passes a completed task; authenticate connects on
\* a terminal only under development auth or an impersonated login, and otherwise
\* only with stored credentials.
C15_ForceCliMode ==
    /\ cliPc # "init_logger" =>
           /\ lastInit.pty = PtyWhenSetOverrides
           /\ PtyWhenSetOverrides => logger = "stdout"
           /\ (~PtyWhenSetOverrides /\ lastInit.opened # NoFile) => logger = "file"
    /\ shellTask # "none" =>
           shellTask = IF PtyWhenSetOverrides THEN "Task::ready" ELSE "spawned"
    /\ cliPc = "done" =>
           (authCalls # <<>> <=>
               IF PtyWhenSetOverrides THEN developmentAuth \/ impersonateLogin
               ELSE hasCredentials)


(***************************************************************************)
(* load_login_shell_environment: crates/zed/src/main.rs 637-687.           *)
(***************************************************************************)
MaxOutput == 3

\* main.rs 638
marker == "ZED_LOGIN_SHELL_START"

Shells == {"/bin/zsh"}

Homes == {"/home/user"}

\* The pieces an output is made of: the marker, and lines NAME=value of /usr/bin/env.
EnvNames == {"PATH", "LANG"}

RunOutcomes == {"spawn failed", "exit 1", "exit 0"}

\* str::rfind in the place of str::find.
FindLast(out, piece) ==
    IF \E i \in 1..Len(out) : out[i] = piece
    THEN CHOOSE i \in 1..Len(out) : out[i] = piece /\ \A j \in (i+1)..Len(out) : out[j] # piece
    ELSE 0

\* main.rs 674: stdout.find(marker), 0 for None.
Find(out, piece) ==
    IF \E i \in 1..Len(out) : out[i] = piece
    THEN CHOOSE i \in 1..Len(out) : out[i] = piece /\ \A j \in 1..(i-1) : out[j] # piece
    ELSE 0

\* main.rs 677: parse_env_output calls the closure for each NAME=value of its input.
ParseEnvOutput(out) == {out[i] : i \in {j \in 1..Len(out) : out[j] \in EnvNames}}

\* main.rs 649-651: var_os("HOME").and_then(into_string().ok()).map(cd '{home}';)
ShellCmdPrefix(home) ==
    IF home \in {"NotPresent", "NotUnicode"} THEN "" ELSE "cd '" \o home \o "';"

\* main.rs 637-668: SHELL is read, and the shell is spawned with its command.
load_login_shell_environment ==
    /\ shellPc = "start"
    /\ IF shellEnv \in VarErrors
       THEN /\ shellPc' = "returned"
            /\ shellResult' = "Err(SHELL environment variable is not assigned)"
            /\ UNCHANGED shellSpawned
       ELSE /\ shellPc' = "running"
            /\ shellSpawned' = Append(shellSpawned,
                                      [shell |-> shellEnv, prefix |-> ShellCmdPrefix(homeEnv)])
            /\ UNCHANGED shellResult
    /\ UNCHANGED <<shellEnv, homeEnv, shellRun, shellStdout, envSet>>

\* main.rs 664-686: output().await and what is done with it.
login_shell_output ==
    /\ shellPc = "running"
    /\ shellPc' = "returned"
    /\ IF shellRun = "spawn failed"
       THEN /\ shellResult' = "Err(failed to spawn login shell)"
            /\ UNCHANGED envSet
       ELSE IF shellRun # "exit 0"
       THEN /\ shellResult' = "Err(login shell exited with error)"
            /\ UNCHANGED envSet
       ELSE LET env_output_start == Find(shellStdout, marker)
            IN  /\ shellResult' = "Ok"
                /\ envSet' = IF env_output_start # 0
                             THEN ParseEnvOutput(SubSeq(shellStdout, env_output_start + 1,
                                                        Len(shellStdout)))
                             ELSE envSet
    /\ UNCHANGED <<shellEnv, homeEnv, shellRun, shellStdout, shellSpawned>>

ShellStart ==
    /\ shellEnv \in VarErrors \cup Shells
    /\ homeEnv \in {"NotPresent", "NotUnicode"} \cup Homes
    /\ shellRun \in RunOutcomes
    /\ \E n \in 0..MaxOutput : shellStdout \in [1..n -> {marker} \cup EnvNames]
    /\ shellPc = "start"
    /\ shellSpawned = <<>>
    /\ envSet = {}
    /\ shellResult = "none"

ShellIdle ==
    /\ shellEnv = "NotPresent"
    /\ homeEnv = "NotPresent"
    /\ shellRun = "spawn failed"
    /\ shellStdout = <<>>
    /\ shellPc = "start"
    /\ shellSpawned = <<>>
    /\ envSet = {}
    /\ shellResult = "none"

\* The variables named in the output after some occurrence of the marker.
NamedAfterMarker ==
    {shellStdout[i] : i \in {k \in 1..Len(shellStdout) :
                                /\ shellStdout[k] # marker
                                /\ \E j \in 1..(k-1) : shellStdout[j] = marker}}

\* C16: without SHELL the function returns an error and spawns nothing; when the
\* shell cannot be spawned or exits unsuccessfully it returns an error and sets no
\* variable; otherwise it returns Ok and has set exactly the variables of the
\* output that follows the first marker, none when there is no marker; no variable
\* is set before it returns Ok; and the command spawned starts with the cd into
\* HOME exactly when HOME is set and valid unicode.
C16_LoginShellEnvironment ==
    /\ shellPc # "returned" => envSet = {}
    /\ (shellPc # "start" /\ shellEnv = "NotPresent") =>
           /\ shellPc = "returned"
           /\ shellResult # "Ok"
           /\ shellSpawned = <<>>
    /\ shellSpawned # <<>> =>
           /\ Len(shellSpawned) = 1
           /\ shellSpawned[1].shell = shellEnv
           /\ shellSpawned[1].prefix # "" <=> homeEnv \in Homes
           /\ homeEnv \in Homes => shellSpawned[1].prefix = "cd '" \o homeEnv \o "';"
    /\ (shellPc = "returned" /\ shellSpawned # <<>>) =>
           IF shellRun = "exit 0"
           THEN shellResult = "Ok" /\ envSet = NamedAfterMarker
           ELSE shellResult # "Ok" /\ envSet = {}
    /\ (shellPc = "returned" /\ shellSpawned = <<>>) => envSet = {}

\* A successful run whose output names a variable before the marker and another
\* after it, with HOME set.
C16_Witness ==
    /\ shellResult = "Ok"
    /\ shellStdout = <<"LANG", marker, "PATH">>
    /\ envSet = {"PATH"}
    /\ shellSpawned # <<>>
    /\ shellSpawned[1].prefix # ""


(***************************************************************************)
(* restorable_workspace_locations: crates/zed/src/main.rs 482-542.         *)
(***************************************************************************)
MaxLocations == 3

RestoreOnStartupBehavior == {"None", "LastWorkspace", "LastSession"}

LocalPaths == {"/a", "/b"}

\* Vec::reverse left out.
NotReversed(s) == s

\* main.rs 531: Vec::reverse
Reverse(s) == [i \in 1..Len(s) |-> s[Len(s) + 1 - i]]

\* main.rs 482-542
RestorableWorkspaceLocations(alive, behavior, id, stack, stored, last) ==
    IF ~alive THEN <<>>
    ELSE LET restore_behavior ==
                 IF id = <<>> /\ behavior = "LastSession" THEN "LastWorkspace" ELSE behavior
         IN  IF restore_behavior = "LastWorkspace"
             THEN IF last = <<>> THEN <<>> ELSE <<<<last[1]>>>>
             ELSE IF restore_behavior = "LastSession"
             THEN IF id # <<>>
                  THEN LET locations == IF stored # <<>> /\ stored[1] # <<>>
                                        THEN stored ELSE <<>>
                       IN  IF stack /\ locations # <<>>
                           THEN <<Reverse(locations[1])>>
                           ELSE locations
                  ELSE <<>>
             ELSE <<>>

restorable_workspace_locations ==
    /\ restorable = <<>>
    /\ restorable' = <<[result |-> RestorableWorkspaceLocations(appAlive, restoreOnStartup,
                                       lastSessionId, windowStack, storedLocations,
                                       lastOpened)]>>
    /\ UNCHANGED <<restoreOnStartup, lastSessionId, windowStack, storedLocations, lastOpened,
                   appAlive>>

RestoreStart ==
    /\ restoreOnStartup \in RestoreOnStartupBehavior
    /\ lastSessionId \in {<<>>, <<"session-1">>}
    /\ windowStack \in BOOLEAN
    /\ \/ storedLocations = <<>>
       \/ \E n \in 0..MaxLocations : \E s \in [1..n -> LocalPaths] : storedLocations = <<s>>
    /\ lastOpened \in {<<>>} \cup {<<p>> : p \in LocalPaths}
    /\ appAlive \in BOOLEAN
    /\ restorable = <<>>

RestoreIdle ==
    /\ restoreOnStartup = "None"
    /\ lastSessionId = <<>>
    /\ windowStack = FALSE
    /\ storedLocations = <<>>
    /\ lastOpened = <<>>
    /\ appAlive = TRUE
    /\ restorable = <<>>

\* C19: in a running app, with LastSession and a last session id the result is None
\* when no list or an empty list is stored, the stored list back to front when a
\* window stack was recorded, and the stored list as it is when none was; with
\* LastSession and no session id, as with LastWorkspace, it is the one-element list of
\* the last opened workspace, or None without one; with any other setting it is None.
C19_RestorableLocations ==
    (restorable # <<>> /\ appAlive) =>
        LET result == restorable[1].result
            stored == IF storedLocations = <<>> THEN <<>> ELSE storedLocations[1]
        IN  /\ (restoreOnStartup = "LastSession" /\ lastSessionId # <<>>) =>
                   /\ stored = <<>> => result = <<>>
                   /\ stored # <<>> =>
                          /\ result # <<>>
                          /\ Len(result[1]) = Len(stored)
                          /\ \A i \in 1..Len(stored) :
                                 result[1][i] =
                                     IF windowStack THEN stored[Len(stored) + 1 - i]
                                     ELSE stored[i]
            /\ (restoreOnStartup = "LastWorkspace"
                    \/ (restoreOnStartup = "LastSession" /\ lastSessionId = <<>>)) =>
                   result = IF lastOpened = <<>> THEN <<>> ELSE <<lastOpened>>
            /\ restoreOnStartup = "None" => result = <<>>

\* A last session with a recorded window stack and two different windows.
C19_Witness ==
    /\ restorable # <<>>
    /\ appAlive
    /\ restoreOnStartup = "LastSession"
    /\ lastSessionId # <<>>
    /\ windowStack
    /\ storedLocations = <<<<"/a", "/b", "/b">>>>
    /\ restorable[1].result = <<<<"/b", "/b", "/a">>>>


(***************************************************************************)
(* restore_or_create_workspace: crates/zed/src/main.rs 452-480, and the    *)
(* task of main that runs it, 351-359.                                     *)
(***************************************************************************)
FirstOpenReads == {"Ok(None)", "Ok(Some)", "Err"}

Platforms == {"linux", "macos", "windows"}

\* main.rs 466 with a failed read taken for a first open.
ShowsWelcomeUnlessKeyPresent(read) == read # "Ok(Some)"

\* main.rs 466: matches!(KEY_VALUE_STORE.read_kvp(FIRST_OPEN), Ok(None))
ShowsWelcome(read) == read = "Ok(None)"

\* main.rs 456-468: restorable_workspace_locations is awaited and one of the three
\* branches is entered.
restore_or_create_workspace ==
    /\ rcPc = "start"
    /\ LET locations == RestorableWorkspaceLocations(appAlive, restoreOnStartup,
                            lastSessionId, windowStack, storedLocations, lastOpened)
       IN  /\ rcLocations' = locations
           /\ IF locations # <<>>
              THEN IF locations[1] = <<>>
                   THEN /\ rcPc' = "returned"
                        /\ rcResult' = "Ok"
                        /\ UNCHANGED <<rcIndex, rcLog, rcWelcome, rcNewFile>>
                   ELSE /\ rcPc' = "open_paths"
                        /\ rcIndex' = 1
                        /\ rcLog' = Append(rcLog, [call |-> "open_paths", at |-> 1,
                                                   location |-> locations[1][1]])
                        /\ UNCHANGED <<rcResult, rcWelcome, rcNewFile>>
              ELSE IF ShowsWelcome(firstOpenRead)
              THEN /\ rcPc' = "show_welcome_view"
                   /\ rcWelcome' = TRUE
                   /\ UNCHANGED <<rcIndex, rcLog, rcNewFile, rcResult>>
              ELSE /\ rcPc' = "open_new"
                   /\ rcNewFile' = TRUE
                   /\ UNCHANGED <<rcIndex, rcLog, rcWelcome, rcResult>>
    /\ UNCHANGED <<firstOpenRead, rcPlatform, rcPrinted, rcExit>>

\* main.rs 457-466: the open_paths task awaited resolves; on Ok the loop starts
\* the next one, on Err the ? returns the error.
open_paths_resolved(ok) ==
    /\ rcPc = "open_paths"
    /\ IF ~ok
       THEN /\ rcLog' = Append(rcLog, [call |-> "Err", at |-> rcIndex,
                                       location |-> rcLocations[1][rcIndex]])
            /\ rcPc' = "returned"
            /\ rcResult' = "Err"
            /\ UNCHANGED rcIndex
       ELSE IF rcIndex < Len(rcLocations[1])
       THEN /\ rcLog' = rcLog \o
                            <<[call |-> "Ok", at |-> rcIndex,
                               location |-> rcLocations[1][rcIndex]],
                              [call |-> "open_paths", at |-> rcIndex + 1,
                               location |-> rcLocations[1][rcIndex + 1]]>>
            /\ rcIndex' = rcIndex + 1
            /\ UNCHANGED <<rcPc, rcResult>>
       ELSE /\ rcLog' = Append(rcLog, [call |-> "Ok", at |-> rcIndex,
                                       location |-> rcLocations[1][rcIndex]])
            /\ rcPc' = "returned"
            /\ rcResult' = "Ok"
            /\ UNCHANGED rcIndex
    /\ UNCHANGED <<firstOpenRead, rcPlatform, rcLocations, rcWelcome, rcNewFile, rcPrinted,
                   rcExit>>

\* main.rs 467 and 469-474: the welcome view or the new workspace resolves.
welcome_or_new_resolved(ok) ==
    /\ rcPc \in {"show_welcome_view", "open_new"}
    /\ rcPc' = "returned"
    /\ rcResult' = IF ok THEN "Ok" ELSE "Err"
    /\ UNCHANGED <<firstOpenRead, rcPlatform, rcLocations, rcIndex, rcLog, rcWelcome,
                   rcNewFile, rcPrinted, rcExit>>

\* main.rs 354-356 and 79-91: the task of main passes an error to
\* fail_to_open_window_async.
restore_task_finished ==
    /\ rcPc = "returned"
    /\ rcPc' = "done"
    /\ IF rcResult = "Err"
       THEN /\ rcPrinted' = TRUE
            /\ rcExit' = IF FailToOpenWindowExits(rcPlatform) THEN "exit(1)" ELSE "none"
       ELSE UNCHANGED <<rcPrinted, rcExit>>
    /\ UNCHANGED <<firstOpenRead, rcPlatform, rcLocations, rcIndex, rcLog, rcWelcome,
                   rcNewFile, rcResult>>

RestoreOrCreateStart ==
    /\ firstOpenRead \in FirstOpenReads
    /\ rcPlatform \in Platforms
    /\ rcPc = "start"
    /\ rcLocations = <<>>
    /\ rcIndex = 0
    /\ rcLog = <<>>
    /\ rcWelcome = FALSE
    /\ rcNewFile = FALSE
    /\ rcResult = "none"
    /\ rcPrinted = FALSE
    /\ rcExit = "none"

RestoreOrCreateIdle ==
    /\ firstOpenRead = "Ok(None)"
    /\ rcPlatform = "linux"
    /\ rcPc = "start"
    /\ rcLocations = <<>>
    /\ rcIndex = 0
    /\ rcLog = <<>>
    /\ rcWelcome = FALSE
    /\ rcNewFile = FALSE
    /\ rcResult = "none"
    /\ rcPrinted = FALSE
    /\ rcExit = "none"

\* The open_paths calls started so far, and the results awaited so far.
OpensStarted == SelectSeq(rcLog, LAMBDA e : e.call = "open_paths")

OpensResolved == SelectSeq(rcLog, LAMBDA e : e.call # "open_paths")

\* C21: once the task has chosen its path, with Some(list) neither the welcome view
\* nor a new file is opened, the locations are opened in list order, each call
\* started only after the one before resolved Ok, and the first failure is the
\* last call and the error returned; with None the welcome view alone is shown
\* when the FIRST_OPEN read is Ok(None), and a new file alone is opened when the
\* key is present or the read failed; an error of the task is printed by
\* fail_to_open_window and ends the process with status 1 except on Linux.
C21_OneOfThreePaths ==
    /\ rcPc # "start" =>
           /\ rcLocations # <<>> =>
                  /\ ~rcWelcome /\ ~rcNewFile
                  /\ \A k \in 1..Len(rcLog) :
                         /\ rcLog[k].at = (k + 1) \div 2
                         /\ rcLog[k].location = rcLocations[1][rcLog[k].at]
                         /\ rcLog[k].call = "open_paths" <=> k % 2 = 1
                         /\ (rcLog[k].call = "Err") => k = Len(rcLog)
                  /\ rcResult = "Ok" =>
                         /\ Len(OpensStarted) = Len(rcLocations[1])
                         /\ \A k \in 1..Len(OpensResolved) : OpensResolved[k].call = "Ok"
                  /\ rcResult = "Err" =>
                         /\ rcLog # <<>>
                         /\ rcLog[Len(rcLog)].call = "Err"
                  /\ rcResult = "none" => Len(OpensStarted) = Len(OpensResolved) + 1
           /\ (rcLocations = <<>> /\ firstOpenRead = "Ok(None)") =>
                  rcWelcome /\ ~rcNewFile /\ rcLog = <<>>
           /\ (rcLocations = <<>> /\ firstOpenRead # "Ok(None)") =>
                  rcNewFile /\ ~rcWelcome /\ rcLog = <<>>
    /\ rcPc = "done" =>
           /\ rcPrinted <=> rcResult = "Err"
           /\ rcExit = "exit(1)" <=> (rcResult = "Err" /\ rcPlatform # "linux")
    /\ rcPc # "done" => (~rcPrinted /\ rcExit = "none")

\* Two locations, the first opened and the second failed, off Linux: the process
\* exited with 1 and neither the welcome view nor a new file was opened.
C21_Witness ==
    /\ rcPc = "done"
    /\ rcLocations # <<>>
    /\ Len(rcLocations[1]) = 3
    /\ Len(rcLog) = 4
    /\ rcLog[2].call = "Ok"
    /\ rcLog[4].call = "Err"
    /\ rcExit = "exit(1)"
    /\ ~rcWelcome /\ ~rcNewFile


(***************************************************************************)
(* open_log_file: crates/zedxa/src/zed.rs 491-576.                         *)
(***************************************************************************)
\* zed.rs 492
MAX_LINES == 1000

\* The numbers of lines a log that loaded has: none, one, half the limit, and
\* more than the limit.
LogLineCounts == {0, 1, MAX_LINES \div 2, MAX_LINES + 1}

\* log.lines() of a loaded log, none for one that failed to load (Result::iter):
\* a line is named by its log and its place in it.
LinesOf(log) == IF log = <<>> THEN 0 ELSE log[1]

\* zed.rs 503-506: the old log's lines chained with the new log's.
ChainLen == LinesOf(oldLog) + LinesOf(newLog)

Chain(i) == IF i <= LinesOf(oldLog) THEN <<"old", i>> ELSE <<"new", i - LinesOf(oldLog)>>

\* zed.rs 508-511 with the line that arrives dropped when the deque is full.
PushBackDroppingNewest(lines, line) ==
    IF Len(lines) = MAX_LINES THEN lines ELSE Append(lines, line)

\* zed.rs 508-511: pop_front when the deque is full, then push_back.
PushBack(lines, line) ==
    IF Len(lines) = MAX_LINES THEN Append(Tail(lines), line) ELSE Append(lines, line)

\* zed.rs 513-518: every line followed by "\n", collected into the String.
Collect(lines) == [k \in 1..Len(lines) |-> <<lines[k], "\n">>]

\* zed.rs 497-502: both loads are awaited; with both failed the log is None.
open_log_file ==
    /\ olPc = "start"
    /\ olPc' = IF oldLog = <<>> /\ newLog = <<>> THEN "no log"
               ELSE IF ChainLen = 0 THEN "log" ELSE "lines"
    /\ olNext' = 1
    /\ UNCHANGED <<oldLog, newLog, olLines, olWorkspaceAlive, olNotification, olEditor>>

\* zed.rs 503-512: one turn of the for loop.
push_line ==
    /\ olPc = "lines"
    /\ olLines' = PushBack(olLines, Chain(olNext))
    /\ olNext' = olNext + 1
    /\ olPc' = IF olNext = ChainLen THEN "log" ELSE "lines"
    /\ UNCHANGED <<oldLog, newLog, olWorkspaceAlive, olNotification, olEditor>>

\* The workspace is released while the task runs.
log_workspace_released ==
    /\ olPc \in {"no log", "log"}
    /\ olWorkspaceAlive
    /\ olWorkspaceAlive' = FALSE
    /\ UNCHANGED <<oldLog, newLog, olPc, olNext, olLines, olNotification, olEditor>>

\* zed.rs 522-571: workspace.update(..).log_err()
show_log ==
    /\ olPc \in {"no log", "log"}
    /\ olPc' = "done"
    /\ IF ~olWorkspaceAlive
       THEN UNCHANGED <<olNotification, olEditor>>
       ELSE IF olPc = "no log"
       THEN /\ olNotification' = "Unable to access/open log file"
            /\ UNCHANGED olEditor
       ELSE LET log == Collect(olLines)
            IN  /\ olEditor' = <<[title |-> "Log", buffer |-> log, cursor |-> Len(log),
                                  pane |-> "active"]>>
                /\ UNCHANGED olNotification
    /\ UNCHANGED <<oldLog, newLog, olNext, olLines, olWorkspaceAlive>>

OpenLogStart ==
    /\ oldLog \in {<<>>} \cup {<<n>> : n \in LogLineCounts}
    /\ newLog \in {<<>>} \cup {<<n>> : n \in LogLineCounts}
    /\ olPc = "start"
    /\ olNext = 0
    /\ olLines = <<>>
    /\ olWorkspaceAlive = TRUE
    /\ olNotification = "none"
    /\ olEditor = <<>>

OpenLogIdle ==
    /\ oldLog = <<>>
    /\ newLog = <<>>
    /\ olPc = "start"
    /\ olNext = 0
    /\ olLines = <<>>
    /\ olWorkspaceAlive = TRUE
    /\ olNotification = "none"
    /\ olEditor = <<>>

\* The number of lines shown: min(1000, N).
TailLen == IF ChainLen < 1000 THEN ChainLen ELSE 1000

\* C23: when the task is done in a workspace that is still there, with both loads
\* failed no editor was opened and the "Unable to access/open log file"
\* notification is shown; otherwise no notification is shown and one editor titled
\* "Log" was added to the active pane, its buffer the last min(1000, N) of the N
\* lines of the old log followed by those of the current log, in that order, each
\* followed by a newline, with the cursor at the end of the buffer. In a workspace
\* that was released nothing is shown.
C23_LogTail ==
    /\ olPc # "done" => (olEditor = <<>> /\ olNotification = "none")
    /\ (olPc = "done" /\ ~olWorkspaceAlive) => (olEditor = <<>> /\ olNotification = "none")
    /\ (olPc = "done" /\ olWorkspaceAlive) =>
           IF oldLog = <<>> /\ newLog = <<>>
           THEN olEditor = <<>> /\ olNotification = "Unable to access/open log file"
           ELSE /\ olNotification = "none"
                /\ Len(olEditor) = 1
                /\ olEditor[1].title = "Log"
                /\ olEditor[1].pane = "active"
                /\ Len(olEditor[1].buffer) = TailLen
                /\ \A k \in 1..TailLen :
                       olEditor[1].buffer[k] = <<Chain(ChainLen - TailLen + k), "\n">>
                /\ olEditor[1].cursor = Len(olEditor[1].buffer)

\* Half a limit of old lines and more than the limit of current ones: the buffer
\* has 1000 lines, all of the current log, none of the old one.
C23_Witness ==
    /\ olPc = "done"
    /\ oldLog = <<500>>
    /\ newLog = <<1001>>
    /\ Len(olEditor) = 1
    /\ Len(olEditor[1].buffer) = 1000
    /\ olEditor[1].buffer[1] = <<<<"new", 2>>, "\n">>
    /\ olEditor[1].buffer[1000] = <<<<"new", 1001>>, "\n">>


(***************************************************************************)
(* load_embedded_fonts: crates/zed/src/main.rs 709-731.                    *)
(***************************************************************************)
MaxFonts == 3

\* The asset paths taken, each without its directory.
AssetPaths ==
    { <<"a", ".", "t", "t", "f">>, <<"b", ".", "t", "t", "f">>, <<"c", ".", "o", "t", "f">>,
      <<"t", "t", "f">>, <<".", "t", "t", "f">> }

\* str::ends_with
EndsWith(s, suffix) ==
    /\ Len(s) >= Len(suffix)
    /\ SubSeq(s, Len(s) - Len(suffix) + 1, Len(s)) = suffix

\* main.rs 715-720: one turn of the loop of the scope: a path that does not end
\* with ".ttf" is skipped, for any other a task is spawned.
spawn_font_task ==
    /\ fontPc = "spawning"
    /\ fontNext <= Len(fontPaths)
    /\ fontNext' = fontNext + 1
    /\ fontTasks' = IF EndsWith(fontPaths[fontNext], <<".", "t", "t", "f">>)
                    THEN fontTasks @@ (fontNext :> "spawned")
                    ELSE fontTasks
    /\ UNCHANGED <<fontPaths, fontPc, embeddedFonts, addFontsCalls>>

\* main.rs 721-722: a task loads its font; a failed load panics in the unwraps.
font_load(i, ok) ==
    /\ fontPc \in {"spawning", "blocked"}
    /\ i \in DOMAIN fontTasks /\ fontTasks[i] = "spawned"
    /\ IF ok
       THEN /\ fontTasks' = [fontTasks EXCEPT ![i] = "loaded"]
            /\ UNCHANGED fontPc
       ELSE /\ fontPc' = "panicked"
            /\ UNCHANGED fontTasks
    /\ UNCHANGED <<fontPaths, fontNext, embeddedFonts, addFontsCalls>>

\* main.rs 723: embedded_fonts.lock().push(font_bytes), under the mutex.
font_push(i) ==
    /\ fontPc \in {"spawning", "blocked"}
    /\ i \in DOMAIN fontTasks /\ fontTasks[i] = "loaded"
    /\ embeddedFonts' = Append(embeddedFonts, i)
    /\ fontTasks' = [fontTasks EXCEPT ![i] = "done"]
    /\ UNCHANGED <<fontPaths, fontPc, fontNext, addFontsCalls>>

\* main.rs 714-726: the closure of the scope has returned and executor.block waits
\* for the tasks.
fonts_block ==
    /\ fontPc = "spawning"
    /\ fontNext > Len(fontPaths)
    /\ fontPc' = "blocked"
    /\ UNCHANGED <<fontPaths, fontNext, fontTasks, embeddedFonts, addFontsCalls>>

\* main.rs 728-730 reached without executor.block waiting for the scope.
add_fonts_without_block(ok) ==
    /\ fontPc = "blocked"
    /\ addFontsCalls' = Append(addFontsCalls, embeddedFonts)
    /\ fontPc' = IF ok THEN "added" ELSE "panicked"
    /\ UNCHANGED <<fontPaths, fontNext, fontTasks, embeddedFonts>>

\* main.rs 728-730: block returned, every task of the scope having completed;
\* add_fonts fails or not.
add_fonts(ok) ==
    /\ fontPc = "blocked"
    /\ \A i \in DOMAIN fontTasks : fontTasks[i] = "done"
    /\ addFontsCalls' = Append(addFontsCalls, embeddedFonts)
    /\ fontPc' = IF ok THEN "added" ELSE "panicked"
    /\ UNCHANGED <<fontPaths, fontNext, fontTasks, embeddedFonts>>

FontsStart ==
    /\ \E n \in 0..MaxFonts : \E ps \in [1..n -> AssetPaths] :
           /\ \A i, j \in 1..n : ps[i] = ps[j] => i = j
           /\ fontPaths = ps
    /\ fontPc = "spawning"
    /\ fontNext = 1
    /\ fontTasks = <<>>
    /\ embeddedFonts = <<>>
    /\ addFontsCalls = <<>>

FontsIdle ==
    /\ fontPaths = <<>>
    /\ fontPc = "spawning"
    /\ fontNext = 1
    /\ fontTasks = <<>>
    /\ embeddedFonts = <<>>
    /\ addFontsCalls = <<>>

\* The places of the paths whose last four characters are ".ttf".
TtfPlaces ==
    {i \in 1..Len(fontPaths) :
        LET p == fontPaths[i]
            n == Len(p)
        IN  /\ n >= 4
            /\ p[n-3] = "." /\ p[n-2] = "t" /\ p[n-1] = "t" /\ p[n] = "f"}

\* C24: the tasks spawned are those of the .ttf paths passed by the loop, one
\* each; a font is in the vector exactly when its task has pushed, and never twice;
\* add_fonts is called at most once, after the loop has ended and every task has
\* completed, and the vector it gets holds each .ttf font exactly once, in any order.
C24_FontsLoadedOnce ==
    /\ DOMAIN fontTasks = {i \in TtfPlaces : i < fontNext}
    /\ \A i, j \in 1..Len(embeddedFonts) : embeddedFonts[i] = embeddedFonts[j] => i = j
    /\ {embeddedFonts[i] : i \in 1..Len(embeddedFonts)} =
           {i \in DOMAIN fontTasks : fontTasks[i] = "done"}
    /\ Len(addFontsCalls) <= 1
    /\ fontPc = "added" => Len(addFontsCalls) = 1
    /\ addFontsCalls # <<>> =>
           /\ fontNext > Len(fontPaths)
           /\ \A i \in DOMAIN fontTasks : fontTasks[i] = "done"
           /\ Len(addFontsCalls[1]) = Cardinality(TtfPlaces)
           /\ {addFontsCalls[1][i] : i \in 1..Len(addFontsCalls[1])} = TtfPlaces

\* Three paths, the second not a .ttf: the font of the third was pushed before the
\* font of the first, and add_fonts got both.
C24_Witness ==
    /\ fontPc = "added"
    /\ Len(fontPaths) = 3
    /\ TtfPlaces = {1, 3}
    /\ addFontsCalls = <<<<3, 1>>>>


(***************************************************************************)
(* open_local_file: crates/zedxa/src/zed.rs 652-745. The worktree's entries  *)
(* are taken to be the files there are, and create_entry to create what is *)
(* missing: both are code outside this file.                               *)
(***************************************************************************)
MaxWorktrees == 2

MaxInvocations == 2

RootEntries == {"directory", "file", "None"}

\* zed.rs 660, 673: initial_local_settings_content() / initial_tasks_content()
initial_contents == "initial contents"

\* zed.rs 685-688: the first visible worktree whose root entry is a directory, 0
\* for None.
FindWorktree(trees) ==
    IF \E i \in 1..Len(trees) : trees[i] = "directory"
    THEN CHOOSE i \in 1..Len(trees) :
             trees[i] = "directory" /\ \A j \in 1..(i-1) : trees[j] # "directory"
    ELSE 0

\* zed.rs 725-731 without the is_empty test.
EditedAlways(text) == initial_contents \o text

\* zed.rs 725-731: buffer.edit([(0..0, initial_contents)]) on an empty buffer only.
Edited(text) == IF text = "" THEN initial_contents \o text ELSE text

\* zed.rs 703-717: from the check of the file's entry to the next await.
FromFileCheck(file) == IF file = <<>> THEN "create_entry(file)" ELSE "open_path"

\* zed.rs 678-693, 738-744: the action. Without a worktree the notification is
\* shown; otherwise the task is spawned and runs to its first await.
open_local_file ==
    /\ Len(localTasks) < MaxInvocations
    /\ IF FindWorktree(visibleWorktrees) = 0
       THEN /\ localNotices' = localNotices + 1
            /\ localTasks' = Append(localTasks, "not spawned")
       ELSE /\ localTasks' = Append(localTasks,
                                    IF ~dirEntry THEN "create_entry(dir)"
                                    ELSE FromFileCheck(localFile))
            /\ UNCHANGED localNotices
    /\ UNCHANGED <<visibleWorktrees, dirEntry, localFile, localBuffer, localAtStart>>

\* zed.rs 692-700: create_entry for the directory resolves.
create_dir_resolved(k, ok) ==
    /\ k \in 1..Len(localTasks) /\ localTasks[k] = "create_entry(dir)"
    /\ IF ok
       THEN /\ dirEntry' = TRUE
            /\ localTasks' = [localTasks EXCEPT ![k] = FromFileCheck(localFile)]
       ELSE /\ localTasks' = [localTasks EXCEPT ![k] = "Err"]
            /\ UNCHANGED dirEntry
    /\ UNCHANGED <<visibleWorktrees, localFile, localBuffer, localAtStart, localNotices>>

\* zed.rs 703-712: create_entry for the file resolves: a file that was not there is
\* created empty.
create_file_resolved(k, ok) ==
    /\ k \in 1..Len(localTasks) /\ localTasks[k] = "create_entry(file)"
    /\ IF ok
       THEN /\ localFile' = IF localFile = <<>> THEN <<"">> ELSE localFile
            /\ localTasks' = [localTasks EXCEPT ![k] = "open_path"]
       ELSE /\ localTasks' = [localTasks EXCEPT ![k] = "Err"]
            /\ UNCHANGED localFile
    /\ UNCHANGED <<visibleWorktrees, dirEntry, localBuffer, localAtStart, localNotices>>

\* zed.rs 714-733: open_path resolves to the editor of the file (the buffer that is
\* open on it, or one loaded from the file), and the editor is updated.
open_path_resolved(k, ok) ==
    /\ k \in 1..Len(localTasks) /\ localTasks[k] = "open_path"
    /\ IF ok /\ localFile # <<>>
       THEN /\ localBuffer' = <<Edited(IF localBuffer = <<>> THEN localFile[1]
                                       ELSE localBuffer[1])>>
            /\ localTasks' = [localTasks EXCEPT ![k] = "Ok"]
       ELSE /\ localTasks' = [localTasks EXCEPT ![k] = "Err"]
            /\ UNCHANGED localBuffer
    /\ UNCHANGED <<visibleWorktrees, dirEntry, localFile, localAtStart, localNotices>>

LocalFileStart ==
    /\ \E n \in 0..MaxWorktrees : visibleWorktrees \in [1..n -> RootEntries]
    /\ dirEntry \in BOOLEAN
    /\ localFile \in {<<>>, <<"">>, <<"content">>}
    /\ localFile # <<>> => dirEntry
    /\ localBuffer \in {<<>>, <<"">>, <<"content">>, <<"edited">>}
    /\ localBuffer # <<>> => localFile # <<>>
    /\ localAtStart = [dir |-> dirEntry, file |-> localFile, buffer |-> localBuffer]
    /\ localTasks = <<>>
    /\ localNotices = 0

LocalFileIdle ==
    /\ visibleWorktrees = <<>>
    /\ dirEntry = FALSE
    /\ localFile = <<>>
    /\ localBuffer = <<>>
    /\ localAtStart = [dir |-> dirEntry, file |-> localFile, buffer |-> localBuffer]
    /\ localTasks = <<>>
    /\ localNotices = 0

\* What one invocation that runs to its end leaves: the directory, the file as it
\* was or a new empty one, and the buffer on it with the initial contents when it
\* would be empty.
AfterOneInvocation ==
    LET file == IF localAtStart.file = <<>> THEN "" ELSE localAtStart.file[1]
        text == IF localAtStart.buffer = <<>> THEN file ELSE localAtStart.buffer[1]
    IN  [dir |-> TRUE, file |-> <<file>>,
         buffer |-> <<IF text = "" THEN "initial contents" ELSE text>>]

\* C26: without a visible worktree whose root is a directory every invocation
\* showed the notification and nothing was created or changed; otherwise no
\* notification is shown, the content of a file that was there and the text of a
\* buffer that was not empty stay as they were, the file is only ever created
\* empty, and as soon as one invocation has run to its end the directory, file and
\* buffer are what a single invocation leaves, however many invocations there were.
C26_NeverOverwrites ==
    /\ (\A i \in 1..Len(visibleWorktrees) : visibleWorktrees[i] # "directory") =>
           /\ localNotices = Len(localTasks)
           /\ [dir |-> dirEntry, file |-> localFile, buffer |-> localBuffer] = localAtStart
    /\ (\E i \in 1..Len(visibleWorktrees) : visibleWorktrees[i] = "directory") =>
           localNotices = 0
    /\ localAtStart.dir => dirEntry
    /\ localFile \in {localAtStart.file, <<"">>}
    /\ localAtStart.file # <<>> => localFile = localAtStart.file
    /\ (localAtStart.buffer # <<>> /\ localAtStart.buffer # <<"">>) =>
           localBuffer = localAtStart.buffer
    /\ localBuffer \in {localAtStart.buffer, AfterOneInvocation.buffer}
    /\ (\E k \in 1..Len(localTasks) : localTasks[k] = "Ok") =>
           [dir |-> dirEntry, file |-> localFile, buffer |-> localBuffer] = AfterOneInvocation

\* Two invocations ran to their end on a file with content that was not open: the
\* file and the buffer have that content.
C26_Witness ==
    /\ Len(localTasks) = 2
    /\ localTasks[1] = "Ok" /\ localTasks[2] = "Ok"
    /\ localAtStart.file = <<"content">>
    /\ localAtStart.buffer = <<>>
    /\ localFile = <<"content">>
    /\ localBuffer = <<"content">>


(***************************************************************************)
(* The specifications.                                                     *)
(***************************************************************************)
NextLogger ==
    \/ /\ \E pty \in BOOLEAN, renameOk \in BOOLEAN, openOk \in BOOLEAN :
             init_logger(pty, renameOk, openOk)
       /\ UNCHANGED <<kvVars, mainVars, keymapVars, keyVars, quitVars, windowVars, wsVars, cliVars, shellVars, restoreVars, rcVars, logViewVars, fontVars, localVars>>
    \/ /\ \E n \in {1, 2, MAX_LOG_BYTES - 1} : LogWrite(n)
       /\ UNCHANGED <<kvVars, mainVars, keymapVars, keyVars, quitVars, windowVars, wsVars, cliVars, shellVars, restoreVars, rcVars, logViewVars, fontVars, localVars>>
    \/ /\ Restart
       /\ UNCHANGED <<kvVars, mainVars, keymapVars, keyVars, quitVars, windowVars, wsVars, cliVars, shellVars, restoreVars, rcVars, logViewVars, fontVars, localVars>>

InitLogger == LoggerStart /\ KvIdle /\ MainIdle /\ KeymapIdle /\ KeysIdle /\ QuitIdle /\ WindowIdle /\ WorkspaceIdle /\ CliIdle /\ ShellIdle /\ RestoreIdle /\ RestoreOrCreateIdle /\ OpenLogIdle /\ FontsIdle /\ LocalFileIdle

SpecLogger == InitLogger /\ [][NextLogger]_vars

NextKv ==
    \/ /\ \E readOk \in BOOLEAN : installation_id_begin(readOk)
       /\ UNCHANGED <<loggerVars, mainVars, keymapVars, keyVars, quitVars, windowVars, wsVars, cliVars, shellVars, restoreVars, rcVars, logViewVars, fontVars, localVars>>
    \/ /\ \E writeOk \in BOOLEAN : installation_id_write_migrated(writeOk)
       /\ UNCHANGED <<loggerVars, mainVars, keymapVars, keyVars, quitVars, windowVars, wsVars, cliVars, shellVars, restoreVars, rcVars, logViewVars, fontVars, localVars>>
    \/ /\ \E deleteOk \in BOOLEAN : installation_id_delete_legacy(deleteOk)
       /\ UNCHANGED <<loggerVars, mainVars, keymapVars, keyVars, quitVars, windowVars, wsVars, cliVars, shellVars, restoreVars, rcVars, logViewVars, fontVars, localVars>>
    \/ /\ \E readOk \in BOOLEAN : installation_id_read_current(readOk)
       /\ UNCHANGED <<loggerVars, mainVars, keymapVars, keyVars, quitVars, windowVars, wsVars, cliVars, shellVars, restoreVars, rcVars, logViewVars, fontVars, localVars>>
    \/ /\ \E writeOk \in BOOLEAN : installation_id_generate(writeOk)
       /\ UNCHANGED <<loggerVars, mainVars, keymapVars, keyVars, quitVars, windowVars, wsVars, cliVars, shellVars, restoreVars, rcVars, logViewVars, fontVars, localVars>>

InitKv == KvStart /\ LoggerIdle /\ MainIdle /\ KeymapIdle /\ KeysIdle /\ QuitIdle /\ WindowIdle /\ WorkspaceIdle /\ CliIdle /\ ShellIdle /\ RestoreIdle /\ RestoreOrCreateIdle /\ OpenLogIdle /\ FontsIdle /\ LocalFileIdle

SpecKv == InitKv /\ [][NextKv]_vars

NextKeymap ==
    \/ /\ \E b \in BaseKeymaps, vim \in BOOLEAN : update_settings(b, vim)
       /\ UNCHANGED <<loggerVars, kvVars, mainVars, keyVars, quitVars, windowVars, wsVars, cliVars, shellVars, restoreVars, rcVars, logViewVars, fontVars, localVars>>
    \/ /\ \E content \in Contents : keymap_file_changed(content)
       /\ UNCHANGED <<loggerVars, kvVars, mainVars, keyVars, quitVars, windowVars, wsVars, cliVars, shellVars, restoreVars, rcVars, logViewVars, fontVars, localVars>>
    \/ /\ keymap_loop
       /\ UNCHANGED <<loggerVars, kvVars, mainVars, keyVars, quitVars, windowVars, wsVars, cliVars, shellVars, restoreVars, rcVars, logViewVars, fontVars, localVars>>

InitKeymap == KeymapStart /\ LoggerIdle /\ KvIdle /\ MainIdle /\ KeysIdle /\ QuitIdle /\ WindowIdle /\ WorkspaceIdle /\ CliIdle /\ ShellIdle /\ RestoreIdle /\ RestoreOrCreateIdle /\ OpenLogIdle /\ FontsIdle /\ LocalFileIdle

SpecKeymap == InitKeymap /\ [][NextKeymap]_vars

\* The whole process, main from its first line on, with what the user and the
\* platform do to it (prompt_response, on_reopen, app_state_dropped, init_ui_again).
Next ==
    \/ (\E pathsOk \in BOOLEAN : main_head(pathsOk)) /\ UNCHANGED <<keymapVars, keyVars, quitVars, windowVars, wsVars, cliVars, shellVars, restoreVars, rcVars, logViewVars, fontVars, localVars>>
    \/ (\E windowOk \in BOOLEAN : fail_to_launch(windowOk)) /\ UNCHANGED <<keymapVars, keyVars, quitVars, windowVars, wsVars, cliVars, shellVars, restoreVars, rcVars, logViewVars, fontVars, localVars>>
    \/ (\E answered \in BOOLEAN : prompt_response(answered)) /\ UNCHANGED <<keymapVars, keyVars, quitVars, windowVars, wsVars, cliVars, shellVars, restoreVars, rcVars, logViewVars, fontVars, localVars>>
    \/ app_quit /\ UNCHANGED <<keymapVars, keyVars, quitVars, windowVars, wsVars, cliVars, shellVars, restoreVars, rcVars, logViewVars, fontVars, localVars>>
    \/ main_init_logger /\ UNCHANGED <<keymapVars, keyVars, quitVars, windowVars, wsVars, cliVars, shellVars, restoreVars, rcVars, logViewVars, fontVars, localVars>>
    \/ main_installation_id /\ UNCHANGED <<keymapVars, keyVars, quitVars, windowVars, wsVars, cliVars, shellVars, restoreVars, rcVars, logViewVars, fontVars, localVars>>
    \/ main_installation_id_step /\ UNCHANGED <<keymapVars, keyVars, quitVars, windowVars, wsVars, cliVars, shellVars, restoreVars, rcVars, logViewVars, fontVars, localVars>>
    \/ (\E yes \in BOOLEAN : main_only_instance(yes)) /\ UNCHANGED <<keymapVars, keyVars, quitVars, windowVars, wsVars, cliVars, shellVars, restoreVars, rcVars, logViewVars, fontVars, localVars>>
    \/ main_login_shell_env /\ UNCHANGED <<keymapVars, keyVars, quitVars, windowVars, wsVars, cliVars, shellVars, restoreVars, rcVars, logViewVars, fontVars, localVars>>
    \/ main_app_run /\ UNCHANGED <<keymapVars, keyVars, quitVars, windowVars, wsVars, cliVars, shellVars, restoreVars, rcVars, logViewVars, fontVars, localVars>>
    \/ main_call /\ UNCHANGED <<keymapVars, keyVars, quitVars, windowVars, wsVars, cliVars, shellVars, restoreVars, rcVars, logViewVars, fontVars, localVars>>
    \/ finish_launching /\ UNCHANGED <<keymapVars, keyVars, quitVars, windowVars, wsVars, cliVars, shellVars, restoreVars, rcVars, logViewVars, fontVars, localVars>>
    \/ run_call /\ UNCHANGED <<keymapVars, keyVars, quitVars, windowVars, wsVars, cliVars, shellVars, restoreVars, rcVars, logViewVars, fontVars, localVars>>
    \/ run_init_common /\ UNCHANGED <<keymapVars, keyVars, quitVars, windowVars, wsVars, cliVars, shellVars, restoreVars, rcVars, logViewVars, fontVars, localVars>>
    \/ run_init_ui /\ UNCHANGED <<keymapVars, keyVars, quitVars, windowVars, wsVars, cliVars, shellVars, restoreVars, rcVars, logViewVars, fontVars, localVars>>
    \/ run_spawn_restore /\ UNCHANGED <<keymapVars, keyVars, quitVars, windowVars, wsVars, cliVars, shellVars, restoreVars, rcVars, logViewVars, fontVars, localVars>>
    \/ (\E t \in spawned, ok \in BOOLEAN : restore_task(t, ok)) /\ UNCHANGED <<keymapVars, keyVars, quitVars, windowVars, wsVars, cliVars, shellVars, restoreVars, rcVars, logViewVars, fontVars, localVars>>
    \/ (\E o \in ThemeOutcomes : themes_task(o)) /\ UNCHANGED <<keymapVars, keyVars, quitVars, windowVars, wsVars, cliVars, shellVars, restoreVars, rcVars, logViewVars, fontVars, localVars>>
    \/ (\E ok \in BOOLEAN : authenticate_task(ok)) /\ UNCHANGED <<keymapVars, keyVars, quitVars, windowVars, wsVars, cliVars, shellVars, restoreVars, rcVars, logViewVars, fontVars, localVars>>
    \/ (\E o \in ShellOutcomes : shell_env_task(o)) /\ UNCHANGED <<keymapVars, keyVars, quitVars, windowVars, wsVars, cliVars, shellVars, restoreVars, rcVars, logViewVars, fontVars, localVars>>
    \/ on_reopen /\ UNCHANGED <<keymapVars, keyVars, quitVars, windowVars, wsVars, cliVars, shellVars, restoreVars, rcVars, logViewVars, fontVars, localVars>>
    \/ app_state_dropped /\ UNCHANGED <<keymapVars, keyVars, quitVars, windowVars, wsVars, cliVars, shellVars, restoreVars, rcVars, logViewVars, fontVars, localVars>>
    \/ init_ui_again /\ UNCHANGED <<keymapVars, keyVars, quitVars, windowVars, wsVars, cliVars, shellVars, restoreVars, rcVars, logViewVars, fontVars, localVars>>

\* A first launch: no log files and an empty key-value store.
Init == MainStart /\ LoggerIdle /\ KvIdle /\ KeymapIdle /\ KeysIdle /\ QuitIdle /\ WindowIdle /\ WorkspaceIdle /\ CliIdle /\ ShellIdle /\ RestoreIdle /\ RestoreOrCreateIdle /\ OpenLogIdle /\ FontsIdle /\ LocalFileIdle

Spec == Init /\ [][Next]_vars

NextKeys ==
    \/ /\ \E id \in Focusable(example) : click(id)
       /\ UNCHANGED <<loggerVars, kvVars, mainVars, keymapVars, quitVars, windowVars, wsVars, cliVars, shellVars, restoreVars, rcVars, logViewVars, fontVars, localVars>>
    \/ /\ \E key \in BoundKeys(example) : press_key(key)
       /\ UNCHANGED <<loggerVars, kvVars, mainVars, keymapVars, quitVars, windowVars, wsVars, cliVars, shellVars, restoreVars, rcVars, logViewVars, fontVars, localVars>>

InitKeys == KeysStart /\ LoggerIdle /\ KvIdle /\ MainIdle /\ KeymapIdle /\ QuitIdle /\ WindowIdle /\ WorkspaceIdle /\ CliIdle /\ ShellIdle /\ RestoreIdle /\ RestoreOrCreateIdle /\ OpenLogIdle /\ FontsIdle /\ LocalFileIdle

SpecKeys == InitKeys /\ [][NextKeys]_vars

NextQuit ==
    \/ /\ quit_action
       /\ UNCHANGED <<loggerVars, kvVars, mainVars, keymapVars, keyVars, windowVars, wsVars, cliVars, shellVars, restoreVars, rcVars, logViewVars, fontVars, localVars>>
    \/ /\ \E answer \in {"Some(0)", "Some(1)", "None"} : confirm_answered(answer)
       /\ UNCHANGED <<loggerVars, kvVars, mainVars, keymapVars, keyVars, windowVars, wsVars, cliVars, shellVars, restoreVars, rcVars, logViewVars, fontVars, localVars>>
    \/ /\ quit_loop
       /\ UNCHANGED <<loggerVars, kvVars, mainVars, keymapVars, keyVars, windowVars, wsVars, cliVars, shellVars, restoreVars, rcVars, logViewVars, fontVars, localVars>>
    \/ /\ \E result \in {"Ok(true)", "Ok(false)", "Err"} : prepare_to_close_resolved(result)
       /\ UNCHANGED <<loggerVars, kvVars, mainVars, keymapVars, keyVars, windowVars, wsVars, cliVars, shellVars, restoreVars, rcVars, logViewVars, fontVars, localVars>>
    \/ /\ \E w \in openWindows : window_closed(w)
       /\ UNCHANGED <<loggerVars, kvVars, mainVars, keymapVars, keyVars, windowVars, wsVars, cliVars, shellVars, restoreVars, rcVars, logViewVars, fontVars, localVars>>

InitQuit == QuitStart /\ LoggerIdle /\ KvIdle /\ MainIdle /\ KeymapIdle /\ KeysIdle /\ WindowIdle /\ WorkspaceIdle /\ CliIdle /\ ShellIdle /\ RestoreIdle /\ RestoreOrCreateIdle /\ OpenLogIdle /\ FontsIdle /\ LocalFileIdle

SpecQuit == InitQuit /\ [][NextQuit]_vars

NextWindow ==
    \/ /\ build_window_options
       /\ UNCHANGED <<loggerVars, kvVars, mainVars, keymapVars, keyVars, quitVars, wsVars, cliVars, shellVars, restoreVars, rcVars, logViewVars, fontVars, localVars>>

InitWindow == WindowStart /\ LoggerIdle /\ KvIdle /\ MainIdle /\ KeymapIdle /\ KeysIdle /\ QuitIdle /\ WorkspaceIdle /\ CliIdle /\ ShellIdle /\ RestoreIdle /\ RestoreOrCreateIdle /\ OpenLogIdle /\ FontsIdle /\ LocalFileIdle

SpecWindow == InitWindow /\ [][NextWindow]_vars

NextWorkspace ==
    \/ /\ initialize_workspace
       /\ UNCHANGED <<loggerVars, kvVars, mainVars, keymapVars, keyVars, quitVars, windowVars, cliVars, shellVars, restoreVars, rcVars, logViewVars, fontVars, localVars>>
    \/ /\ \E answer \in PromptAnswers : gpu_prompt_resolved(answer)
       /\ UNCHANGED <<loggerVars, kvVars, mainVars, keymapVars, keyVars, quitVars, windowVars, cliVars, shellVars, restoreVars, rcVars, logViewVars, fontVars, localVars>>
    \/ /\ window_should_close
       /\ UNCHANGED <<loggerVars, kvVars, mainVars, keymapVars, keyVars, quitVars, windowVars, cliVars, shellVars, restoreVars, rcVars, logViewVars, fontVars, localVars>>
    \/ /\ \E p \in Panels, ok \in BOOLEAN : panel_load_resolved(p, ok)
       /\ UNCHANGED <<loggerVars, kvVars, mainVars, keymapVars, keyVars, quitVars, windowVars, cliVars, shellVars, restoreVars, rcVars, logViewVars, fontVars, localVars>>
    \/ /\ add_panels
       /\ UNCHANGED <<loggerVars, kvVars, mainVars, keymapVars, keyVars, quitVars, windowVars, cliVars, shellVars, restoreVars, rcVars, logViewVars, fontVars, localVars>>
    \/ /\ workspace_released
       /\ UNCHANGED <<loggerVars, kvVars, mainVars, keymapVars, keyVars, quitVars, windowVars, cliVars, shellVars, restoreVars, rcVars, logViewVars, fontVars, localVars>>

InitWorkspace == WorkspaceStart /\ LoggerIdle /\ KvIdle /\ MainIdle /\ KeymapIdle /\ KeysIdle /\ QuitIdle /\ WindowIdle /\ CliIdle /\ ShellIdle /\ RestoreIdle /\ RestoreOrCreateIdle /\ OpenLogIdle /\ FontsIdle /\ LocalFileIdle

SpecWorkspace == InitWorkspace /\ [][NextWorkspace]_vars

NextCli ==
    \/ /\ cli_init_logger
       /\ UNCHANGED <<kvVars, mainVars, keymapVars, keyVars, quitVars, windowVars, wsVars, shellVars, restoreVars, rcVars, logViewVars, fontVars, localVars>>
    \/ /\ cli_login_shell_env
       /\ UNCHANGED <<loggerVars, kvVars, mainVars, keymapVars, keyVars, quitVars, windowVars, wsVars, shellVars, restoreVars, rcVars, logViewVars, fontVars, localVars>>
    \/ /\ authenticate
       /\ UNCHANGED <<loggerVars, kvVars, mainVars, keymapVars, keyVars, quitVars, windowVars, wsVars, shellVars, restoreVars, rcVars, logViewVars, fontVars, localVars>>

InitCli == CliStart /\ LoggerIdle /\ KvIdle /\ MainIdle /\ KeymapIdle /\ KeysIdle /\ QuitIdle /\ WindowIdle /\ WorkspaceIdle /\ ShellIdle /\ RestoreIdle /\ RestoreOrCreateIdle /\ OpenLogIdle /\ FontsIdle /\ LocalFileIdle

SpecCli == InitCli /\ [][NextCli]_vars

NextShell ==
    \/ /\ load_login_shell_environment
       /\ UNCHANGED <<loggerVars, kvVars, mainVars, keymapVars, keyVars, quitVars, windowVars, wsVars, cliVars, restoreVars, rcVars, logViewVars, fontVars, localVars>>
    \/ /\ login_shell_output
       /\ UNCHANGED <<loggerVars, kvVars, mainVars, keymapVars, keyVars, quitVars, windowVars, wsVars, cliVars, restoreVars, rcVars, logViewVars, fontVars, localVars>>

InitShell == ShellStart /\ LoggerIdle /\ KvIdle /\ MainIdle /\ KeymapIdle /\ KeysIdle /\ QuitIdle /\ WindowIdle /\ WorkspaceIdle /\ CliIdle /\ RestoreIdle /\ RestoreOrCreateIdle /\ OpenLogIdle /\ FontsIdle /\ LocalFileIdle

SpecShell == InitShell /\ [][NextShell]_vars

NextRestore ==
    \/ /\ restorable_workspace_locations
       /\ UNCHANGED <<loggerVars, kvVars, mainVars, keymapVars, keyVars, quitVars, windowVars, wsVars, cliVars, shellVars, rcVars, logViewVars, fontVars, localVars>>

InitRestore == RestoreStart /\ LoggerIdle /\ KvIdle /\ MainIdle /\ KeymapIdle /\ KeysIdle /\ QuitIdle /\ WindowIdle /\ WorkspaceIdle /\ CliIdle /\ ShellIdle /\ RestoreOrCreateIdle /\ OpenLogIdle /\ FontsIdle /\ LocalFileIdle

SpecRestore == InitRestore /\ [][NextRestore]_vars

NextRestoreOrCreate ==
    \/ /\ restore_or_create_workspace
       /\ UNCHANGED <<loggerVars, kvVars, mainVars, keymapVars, keyVars, quitVars, windowVars, wsVars, cliVars, shellVars, restoreVars, logViewVars, fontVars, localVars>>
    \/ /\ \E ok \in BOOLEAN : open_paths_resolved(ok)
       /\ UNCHANGED <<loggerVars, kvVars, mainVars, keymapVars, keyVars, quitVars, windowVars, wsVars, cliVars, shellVars, restoreVars, logViewVars, fontVars, localVars>>
    \/ /\ \E ok \in BOOLEAN : welcome_or_new_resolved(ok)
       /\ UNCHANGED <<loggerVars, kvVars, mainVars, keymapVars, keyVars, quitVars, windowVars, wsVars, cliVars, shellVars, restoreVars, logViewVars, fontVars, localVars>>
    \/ /\ restore_task_finished
       /\ UNCHANGED <<loggerVars, kvVars, mainVars, keymapVars, keyVars, quitVars, windowVars, wsVars, cliVars, shellVars, restoreVars, logViewVars, fontVars, localVars>>

InitRestoreOrCreate == RestoreOrCreateStart /\ RestoreStart /\ LoggerIdle /\ KvIdle /\ MainIdle /\ KeymapIdle /\ KeysIdle /\ QuitIdle /\ WindowIdle /\ WorkspaceIdle /\ CliIdle /\ ShellIdle /\ OpenLogIdle /\ FontsIdle /\ LocalFileIdle

SpecRestoreOrCreate == InitRestoreOrCreate /\ [][NextRestoreOrCreate]_vars

NextOpenLog ==
    \/ /\ open_log_file
       /\ UNCHANGED <<loggerVars, kvVars, mainVars, keymapVars, keyVars, quitVars, windowVars, wsVars, cliVars, shellVars, restoreVars, rcVars, fontVars, localVars>>
    \/ /\ push_line
       /\ UNCHANGED <<loggerVars, kvVars, mainVars, keymapVars, keyVars, quitVars, windowVars, wsVars, cliVars, shellVars, restoreVars, rcVars, fontVars, localVars>>
    \/ /\ log_workspace_released
       /\ UNCHANGED <<loggerVars, kvVars, mainVars, keymapVars, keyVars, quitVars, windowVars, wsVars, cliVars, shellVars, restoreVars, rcVars, fontVars, localVars>>
    \/ /\ show_log
       /\ UNCHANGED <<loggerVars, kvVars, mainVars, keymapVars, keyVars, quitVars, windowVars, wsVars, cliVars, shellVars, restoreVars, rcVars, fontVars, localVars>>

InitOpenLog == OpenLogStart /\ LoggerIdle /\ KvIdle /\ MainIdle /\ KeymapIdle /\ KeysIdle /\ QuitIdle /\ WindowIdle /\ WorkspaceIdle /\ CliIdle /\ ShellIdle /\ RestoreIdle /\ RestoreOrCreateIdle /\ FontsIdle /\ LocalFileIdle

SpecOpenLog == InitOpenLog /\ [][NextOpenLog]_vars

NextFonts ==
    \/ /\ spawn_font_task
       /\ UNCHANGED <<loggerVars, kvVars, mainVars, keymapVars, keyVars, quitVars, windowVars, wsVars, cliVars, shellVars, restoreVars, rcVars, logViewVars, localVars>>
    \/ /\ \E i \in DOMAIN fontTasks, ok \in BOOLEAN : font_load(i, ok)
       /\ UNCHANGED <<loggerVars, kvVars, mainVars, keymapVars, keyVars, quitVars, windowVars, wsVars, cliVars, shellVars, restoreVars, rcVars, logViewVars, localVars>>
    \/ /\ \E i \in DOMAIN fontTasks : font_push(i)
       /\ UNCHANGED <<loggerVars, kvVars, mainVars, keymapVars, keyVars, quitVars, windowVars, wsVars, cliVars, shellVars, restoreVars, rcVars, logViewVars, localVars>>
    \/ /\ fonts_block
       /\ UNCHANGED <<loggerVars, kvVars, mainVars, keymapVars, keyVars, quitVars, windowVars, wsVars, cliVars, shellVars, restoreVars, rcVars, logViewVars, localVars>>
    \/ /\ \E ok \in BOOLEAN : add_fonts(ok)
       /\ UNCHANGED <<loggerVars, kvVars, mainVars, keymapVars, keyVars, quitVars, windowVars, wsVars, cliVars, shellVars, restoreVars, rcVars, logViewVars, localVars>>

InitFonts == FontsStart /\ LoggerIdle /\ KvIdle /\ MainIdle /\ KeymapIdle /\ KeysIdle /\ QuitIdle /\ WindowIdle /\ WorkspaceIdle /\ CliIdle /\ ShellIdle /\ RestoreIdle /\ RestoreOrCreateIdle /\ OpenLogIdle /\ LocalFileIdle

SpecFonts == InitFonts /\ [][NextFonts]_vars

NextLocalFile ==
    \/ /\ open_local_file
       /\ UNCHANGED <<loggerVars, kvVars, mainVars, keymapVars, keyVars, quitVars, windowVars, wsVars, cliVars, shellVars, restoreVars, rcVars, logViewVars, fontVars>>
    \/ /\ \E k \in 1..MaxInvocations, ok \in BOOLEAN : create_dir_resolved(k, ok)
       /\ UNCHANGED <<loggerVars, kvVars, mainVars, keymapVars, keyVars, quitVars, windowVars, wsVars, cliVars, shellVars, restoreVars, rcVars, logViewVars, fontVars>>
    \/ /\ \E k \in 1..MaxInvocations, ok \in BOOLEAN : create_file_resolved(k, ok)
       /\ UNCHANGED <<loggerVars, kvVars, mainVars, keymapVars, keyVars, quitVars, windowVars, wsVars, cliVars, shellVars, restoreVars, rcVars, logViewVars, fontVars>>
    \/ /\ \E k \in 1..MaxInvocations, ok \in BOOLEAN : open_path_resolved(k, ok)
       /\ UNCHANGED <<loggerVars, kvVars, mainVars, keymapVars, keyVars, quitVars, windowVars, wsVars, cliVars, shellVars, restoreVars, rcVars, logViewVars, fontVars>>

InitLocalFile == LocalFileStart /\ LoggerIdle /\ KvIdle /\ MainIdle /\ KeymapIdle /\ KeysIdle /\ QuitIdle /\ WindowIdle /\ WorkspaceIdle /\ CliIdle /\ ShellIdle /\ RestoreIdle /\ RestoreOrCreateIdle /\ OpenLogIdle /\ FontsIdle

SpecLocalFile == InitLocalFile /\ [][NextLocalFile]_vars

=============================================================================
